---- MODULE Spec2Model ----
(***************************************************************************)
(* Virtual file system over a replicated row table                         *)
(* (packages/epicenter/src/filesystem): the derived path index             *)
(* (createFileSystemIndex and its repairs), and the YjsFileSystem facade.  *)
(*                                                                         *)
(* Representation.                                                         *)
(*   - row ids are strings; the null parentId is the string Null; the null *)
(*     trashedAt is the number NotTrashed (0), timestamps are >= 1;        *)
(*   - a path '/a/b' is the sequence <<"a", "b">> of its segments, '/' is  *)
(*     <<>>; names never contain '/', so the encoding is injective;        *)
(*   - a file name is a string; SplitName gives its (stem, extension) the  *)
(*     way lastIndexOf('.') splits it.                                     *)
(***************************************************************************)
EXTENDS Integers, Sequences, FiniteSets, TLC

\* ------------------------------------------------------------------------
\* Bounds of the model
\* ------------------------------------------------------------------------
MaxRows == 3

MaxTime == 2

\* Rows and row changes that other replicas deliver in one run.
MaxDeliveries == 3

\* Chains of MAX_DEPTH - ChainSlack .. MAX_DEPTH + ChainSlack rows are built.
ChainSlack == 3

\* Calls made on the facade in one run.
MaxCalls == 3

\* appendFile is called while the content stays within MaxContent characters.
MaxContent == 2

\* ------------------------------------------------------------------------
\* Program constants
\* ------------------------------------------------------------------------
MAX_DEPTH == 50

ROOT_ID == "ROOT"

Null == "null"

NotTrashed == 0

\* ------------------------------------------------------------------------
\* Universes the inputs are drawn from
\* ------------------------------------------------------------------------
IdOf(i) == "f" \o ToString(i)

Ids == {IdOf(i) : i \in 1..MaxRows}

\* An id that names no row of the table (a parent that never arrived).
MissingId == "gone"

Times == 1..MaxTime

\* (stem, extension) of every name an input may carry.
NamePairs ==
  { <<"a", ".txt">>, <<"a (1)", ".txt">>, <<"n", ".md">>, <<"d", "">>,
    <<"e", "">> }

Names == {p[1] \o p[2] : p \in NamePairs}

SplitName(name) == CHOOSE p \in NamePairs : p[1] \o p[2] = name

\* ------------------------------------------------------------------------
\* Small sequence helpers (JavaScript array operations)
\* ------------------------------------------------------------------------
Range(s) == {s[i] : i \in 1..Len(s)}

\* Array.prototype.indexOf, 1-based; 0 when absent.
IndexOf(s, x) ==
  IF x \in Range(s) THEN CHOOSE i \in 1..Len(s) : s[i] = x /\ \A j \in 1..(i-1) : s[j] # x
  ELSE 0

\* path.slice(path.indexOf(x)): indexOf -1 makes slice(-1), the last element.
SliceFromIndexOf(s, x) ==
  IF IndexOf(s, x) > 0 THEN SubSeq(s, IndexOf(s, x), Len(s))
  ELSE IF Len(s) = 0 THEN <<>>
  ELSE <<s[Len(s)]>>

\* ------------------------------------------------------------------------
\* The row table (TableHelper<FileRow>): rows by id, and the order in which
\* getAllValid lists them.  get(id) is valid exactly for id \in DOMAIN rows.
\* ------------------------------------------------------------------------
FileRow(id, name, parentId, type, size, createdAt, updatedAt, trashedAt) ==
  [id |-> id, name |-> name, parentId |-> parentId, type |-> type, size |-> size,
   createdAt |-> createdAt, updatedAt |-> updatedAt, trashedAt |-> trashedAt]

\* filesTable.update(id, patch) on the stored rows: a missing id changes nothing.
UpdateRow(rows, id, patch) ==
  IF id \in DOMAIN rows THEN [rows EXCEPT ![id] = patch @@ @] ELSE rows

\* rows.filter((r) => r.trashedAt === null), as ids in getAllValid order.
ActiveRows(rows, order) ==
  SelectSeq(order, LAMBDA i : rows[i].trashedAt = NotTrashed)

ParentKey(row) == IF row.parentId = Null THEN ROOT_ID ELSE row.parentId

\* "Build childrenOf index": one bucket per parent key, children in row order.
BuildChildrenOf(rows, active) ==
  [k \in {ParentKey(rows[active[i]]) : i \in 1..Len(active)} |->
     SelectSeq(active, LAMBDA c : ParentKey(rows[c]) = k)]

\* childrenOf.get(key) ?? []
ChildrenGet(childrenOf, key) ==
  IF key \in DOMAIN childrenOf THEN childrenOf[key] ELSE <<>>

\* childrenOf.set(key, list)
ChildrenSet(childrenOf, key, list) ==
  [k \in (DOMAIN childrenOf) \cup {key} |-> IF k = key THEN list ELSE childrenOf[k]]

\* ------------------------------------------------------------------------
\* Cycle repair
\* ------------------------------------------------------------------------
\* The member of cycleIds with the latest updatedAt: latestId starts as
\* cycleIds[0], latestTime as 0, and a member replaces it only when strictly
\* later.  An empty cycleIds leaves latestId undefined (MissingId here: the
\* update that follows then names no row).
RECURSIVE LatestFrom(_, _, _, _, _)
LatestFrom(i, cycleIds, rows, latestId, latestTime) ==
  IF i > Len(cycleIds) THEN latestId
  ELSE IF cycleIds[i] \in DOMAIN rows /\ rows[cycleIds[i]].updatedAt > latestTime
       THEN LatestFrom(i + 1, cycleIds, rows, cycleIds[i], rows[cycleIds[i]].updatedAt)
       ELSE LatestFrom(i + 1, cycleIds, rows, latestId, latestTime)

LatestUpdated(cycleIds, rows) ==
  IF Len(cycleIds) = 0 THEN MissingId
  ELSE LatestFrom(1, cycleIds, rows, cycleIds[1], 0)

\* The walk of detectCycle.  st = [rows, visited, inStack, updates]; updates
\* counts the filesTable.update calls that changed the table.
RECURSIVE DetectWalk(_, _, _)
DetectWalk(currentId, path, st) ==
  LET MarkVisited ==
        [st EXCEPT !.visited = @ \cup Range(path), !.inStack = @ \ Range(path)]
  IN
  IF currentId = Null THEN MarkVisited
  ELSE IF currentId \in st.visited THEN MarkVisited
  ELSE IF currentId \in st.inStack THEN
    \* cycle branch: returns without marking visited or clearing inStack
    LET cycleIds == SliceFromIndexOf(path, currentId)
        latestId == LatestUpdated(cycleIds, st.rows)
    IN [st EXCEPT !.rows = UpdateRow(st.rows, latestId, [parentId |-> Null]),
                  !.updates = IF latestId \in DOMAIN st.rows THEN @ + 1 ELSE @]
  ELSE
    LET pushed == [st EXCEPT !.inStack = @ \cup {currentId}]
        path2 == Append(path, currentId)
    IN IF currentId \notin DOMAIN st.rows
       THEN [pushed EXCEPT !.visited = @ \cup Range(path2), !.inStack = @ \ Range(path2)]
       ELSE DetectWalk(st.rows[currentId].parentId, path2, pushed)

detectCycle(startId, st) == DetectWalk(startId, <<>>, st)

RECURSIVE FixCircularFrom(_, _, _)
FixCircularFrom(i, active, st) ==
  IF i > Len(active) THEN st
  ELSE IF active[i] \in st.visited THEN FixCircularFrom(i + 1, active, st)
  ELSE FixCircularFrom(i + 1, active, detectCycle(active[i], st))

\* A rebuild that leaves every cycle in place: no walk, no update.
NoCycleRepair(rows, active) ==
  [rows |-> rows, visited |-> {}, inStack |-> {}, updates |-> 0]

\* fixCircularReferences(filesTable, activeRows): the table after the repair
\* and the number of updates made.
fixCircularReferences(rows, active) ==
  FixCircularFrom(1, active,
    [rows |-> rows, visited |-> {}, inStack |-> {}, updates |-> 0])

\* ------------------------------------------------------------------------
\* Orphan repair
\* ------------------------------------------------------------------------
\* fixOrphans(filesTable, activeRows, childrenOf).  activeRows is the list
\* rebuild read before the cycle repair (snapshot), so row.parentId is the
\* value a row had then.  st = [rows, childrenOf, updates]; repaired is what
\* the cycle repair left, and its updates are counted on.
RECURSIVE FixOrphansFrom(_, _, _, _)
FixOrphansFrom(i, active, snapshot, st) ==
  IF i > Len(active) THEN st
  ELSE
    LET id == active[i]
        parentId == snapshot[id].parentId
        oldChildren == ChildrenGet(st.childrenOf, parentId)
        detached == ChildrenSet(st.childrenOf, parentId,
                                SelectSeq(oldChildren, LAMBDA c : c # id))
        moved == ChildrenSet(detached, ROOT_ID,
                             Append(ChildrenGet(detached, ROOT_ID), id))
    IN IF st.updates >= 0 /\ (parentId = Null \/ parentId \in Range(active))
       THEN FixOrphansFrom(i + 1, active, snapshot, st)
       ELSE FixOrphansFrom(i + 1, active, snapshot,
              [rows |-> UpdateRow(st.rows, id, [parentId |-> Null]),
               childrenOf |-> moved,
               updates |-> st.updates + 1])

fixOrphans(repaired, active, snapshot, childrenOf) ==
  FixOrphansFrom(1, active, snapshot,
    [rows |-> repaired.rows, childrenOf |-> childrenOf, updates |-> repaired.updates])

\* ------------------------------------------------------------------------
\* Display names
\* ------------------------------------------------------------------------
\* 'name (k).ext': the suffix goes before the extension.
SuffixedName(name, k) ==
  SplitName(name)[1] \o " (" \o ToString(k) \o ")" \o SplitName(name)[2]

\* disambiguateNames(rows): childIds lists the rows; within the rows of one
\* name, ordered by createdAt (ties keep list order), the first keeps the
\* name and the k-th later one gets the suffix (k).
disambiguateNames(childIds, rows) ==
  [id \in Range(childIds) |->
     LET at == IndexOf(childIds, id)
         earlier == {j \in 1..Len(childIds) :
                       /\ rows[childIds[j]].name = rows[id].name
                       /\ \/ rows[childIds[j]].createdAt < rows[id].createdAt
                          \/ /\ rows[childIds[j]].createdAt = rows[id].createdAt
                             /\ j < at}
     IN IF earlier = {} THEN rows[id].name
        ELSE SuffixedName(rows[id].name, Cardinality(earlier))]

\* ------------------------------------------------------------------------
\* Path assembly
\* ------------------------------------------------------------------------
\* computePath(id, filesTable, displayNames): [ok, path]; ok is FALSE where
\* the code returns null.
RECURSIVE ComputeWalk(_, _, _, _, _)
ComputeWalk(currentId, depth, parts, rows, displayNames) ==
  IF currentId # Null /\ depth < MAX_DEPTH THEN
    IF currentId \notin DOMAIN rows THEN [ok |-> FALSE, path |-> <<>>]
    ELSE ComputeWalk(rows[currentId].parentId, depth + 1,
           <<IF currentId \in DOMAIN displayNames THEN displayNames[currentId]
             ELSE rows[currentId].name>> \o parts,
           rows, displayNames)
  ELSE IF depth >= MAX_DEPTH THEN [ok |-> FALSE, path |-> <<>>]
  ELSE [ok |-> TRUE, path |-> parts]

computePath(id, rows, displayNames) == ComputeWalk(id, 0, <<>>, rows, displayNames)

\* The display names of buildPaths: every bucket of childrenOf disambiguated
\* on its own, over its rows that are valid and active now.
AllDisplayNames(rows, childrenOf) ==
  LET bucket == [k \in DOMAIN childrenOf |->
                   SelectSeq(childrenOf[k],
                     LAMBDA c : c \in DOMAIN rows /\ rows[c].trashedAt = NotTrashed)]
      names == [k \in DOMAIN childrenOf |-> disambiguateNames(bucket[k], rows)]
      listed == UNION {Range(bucket[k]) : k \in DOMAIN childrenOf}
  IN [id \in listed |->
        names[CHOOSE k \in DOMAIN childrenOf : id \in Range(bucket[k])][id]]

\* The two path maps of buildPaths, from the computePath result of every
\* active row: rows are entered in row order, so a later row with the same
\* path replaces the earlier one in pathToId.
PathMaps(active, path) ==
  LET indexed == {id \in Range(active) : path[id].ok}
      LastWith(p) == active[CHOOSE i \in 1..Len(active) :
                        /\ active[i] \in indexed /\ path[active[i]].path = p
                        /\ \A j \in (i + 1)..Len(active) :
                              ~(active[j] \in indexed /\ path[active[j]].path = p)]
  IN [pathToId |-> [p \in {<<>>} \cup {path[id].path : id \in indexed} |->
                      IF p = <<>> THEN ROOT_ID ELSE LastWith(p)],
      idToPath |-> [id \in {ROOT_ID} \cup indexed |->
                      IF id = ROOT_ID THEN <<>> ELSE path[id].path]]

\* buildPaths: pathToId and idToPath over the active rows.
buildPaths(rows, order, childrenOf) ==
  LET displayNames == AllDisplayNames(rows, childrenOf)
      active == ActiveRows(rows, order)
  IN PathMaps(active, [id \in Range(active) |-> computePath(id, rows, displayNames)])

\* ------------------------------------------------------------------------
\* rebuild(): one pass.  Returns the table it leaves, the three maps and the
\* number of updates it made to the table.
\* ------------------------------------------------------------------------
\* A rebuild whose repairs write on every run.
RebuiltAlwaysWriting(repaired, built) ==
  [rows |-> repaired.rows,
   pathToId |-> built.pathToId,
   idToPath |-> built.idToPath,
   childrenOf |-> repaired.childrenOf,
   updates |-> 1]

\* The result of rebuild: what the repairs left, and the path maps.
Rebuilt(repaired, built) ==
  [rows |-> repaired.rows,
   pathToId |-> built.pathToId,
   idToPath |-> built.idToPath,
   childrenOf |-> repaired.childrenOf,
   updates |-> repaired.updates]

\* The last step of rebuild: buildPaths over what the repairs left.
RebuildPaths(repaired, order) ==
  Rebuilt(repaired, buildPaths(repaired.rows, order, repaired.childrenOf))

rebuild(rows, order) ==
  LET active == ActiveRows(rows, order)
  IN RebuildPaths(
       fixOrphans(fixCircularReferences(rows, active), active, rows,
                  BuildChildrenOf(rows, active)),
       order)

\* ------------------------------------------------------------------------
\* State
\* ------------------------------------------------------------------------
VARIABLES
  rows,        \* the row table: id -> FileRow (rows are never removed)
  order,       \* the ids in the order getAllValid lists them
  observing,   \* TRUE once createFileSystemIndex has run and subscribed
  pathToId,    \* index: path -> id
  idToPath,    \* index: id -> path
  childrenOf,  \* index: parent key -> list of child ids
  plaintext,   \* index: file id -> cached content
  docs,        \* content pool: file id -> [type, refcount, ydoc]
  store,       \* what the sync provider holds: file id -> ydoc
  provider,    \* TRUE when the pool was created with a connectProvider
  opened,      \* how many Y.Docs the pool has constructed (new Y.Doc)
  closed,      \* how many Y.Docs the pool has destroyed (ydoc.destroy)
  now,         \* the clock Date.now() reads
  steps,       \* deliveries from other replicas and facade calls made so far
  hist         \* what the last step was and what it started from

vars == <<rows, order, observing, pathToId, idToPath, childrenOf, plaintext,
          docs, store, provider, opened, closed, now, steps, hist>>

\* The table and the index as one value, for the operations that thread them.
World == [rows |-> rows, order |-> order, observing |-> observing,
          pathToId |-> pathToId, idToPath |-> idToPath,
          childrenOf |-> childrenOf, plaintext |-> plaintext,
          docs |-> docs, store |-> store, provider |-> provider,
          opened |-> opened, closed |-> closed]

\* The observer of createFileSystemIndex: update(changedIds) runs rebuild().
\* A table update made by a rebuild that runs inside the observer is a
\* transaction of its own, delivered when the running callback has returned:
\* pending counts the callbacks still to run.
\* A rebuild that clears the plaintext cache with the three maps.
IndexedClearingCache(w, r) ==
  [w EXCEPT !.rows = r.rows, !.pathToId = r.pathToId,
            !.idToPath = r.idToPath, !.childrenOf = r.childrenOf,
            !.plaintext = [x \in {} |-> x]]

\* The world with the table and the maps a rebuild r left.
Indexed(w, r) ==
  [w EXCEPT !.rows = r.rows, !.pathToId = r.pathToId,
            !.idToPath = r.idToPath, !.childrenOf = r.childrenOf]

RECURSIVE Observe(_, _)

\* One callback has run rebuild with result r; the updates it made are
\* callbacks to come.
Observed(w, pending, r) == Observe(Indexed(w, r), pending - 1 + r.updates)

Observe(w, pending) ==
  IF pending = 0 THEN w
  ELSE Observed(w, pending, rebuild(w.rows, w.order))

\* filesTable.set(row): a new id is listed last; observers run before it returns.
TableSet(w, row) ==
  LET stored == [w EXCEPT
                   !.rows = [i \in (DOMAIN w.rows) \cup {row.id} |->
                               IF i = row.id THEN row ELSE w.rows[i]],
                   !.order = IF row.id \in DOMAIN w.rows THEN @ ELSE Append(@, row.id)]
  IN IF w.observing THEN Observe(stored, 1) ELSE stored

\* filesTable.update(id, patch): nothing is reported for an id that has no row.
TableUpdate(w, id, patch) ==
  IF id \notin DOMAIN w.rows THEN w
  ELSE LET stored == [w EXCEPT !.rows = UpdateRow(w.rows, id, patch)]
       IN IF w.observing THEN Observe(stored, 1) ELSE stored

\* createFileSystemIndex(filesTable): rebuild() once, then subscribe.  The
\* updates this first rebuild makes reach no observer.
createFileSystemIndex(w) ==
  [Indexed(w, rebuild(w.rows, w.order)) EXCEPT !.observing = TRUE]

\* An id the table does not hold yet (generateGuid), the first one free.
FreshId(r) == IdOf(CHOOSE i \in 1..(Cardinality(DOMAIN r) + 1) :
                     IdOf(i) \notin DOMAIN r /\ \A j \in 1..(i - 1) : IdOf(j) \in DOMAIN r)

TypeOfName(name) == IF SplitName(name)[2] = "" THEN "folder" ELSE "file"

EmptyMap == [x \in {} |-> x]

Become(w) ==
  /\ rows' = w.rows
  /\ order' = w.order
  /\ observing' = w.observing
  /\ pathToId' = w.pathToId
  /\ idToPath' = w.idToPath
  /\ childrenOf' = w.childrenOf
  /\ plaintext' = w.plaintext
  /\ docs' = w.docs
  /\ store' = w.store
  /\ provider' = w.provider
  /\ opened' = w.opened
  /\ closed' = w.closed

\* ------------------------------------------------------------------------
\* Rows that other replicas deliver
\* ------------------------------------------------------------------------
RawNames == {"a.txt", "a (1).txt"}

RawParents == {Null, MissingId} \cup Ids

\* A row a replica can have written: any name, parent and tombstone.
RawRow(id, name, parentId, t, trashed) ==
  FileRow(id, name, parentId, TypeOfName(name), 0, t, t,
          IF trashed THEN t ELSE NotTrashed)

\* A row stored before the index exists (the table is loaded from the
\* replicated document; nothing observes it yet).
Load(name, parentId, t, trashed) ==
  /\ ~observing
  /\ Cardinality(DOMAIN rows) < MaxRows
  /\ steps < MaxDeliveries
  /\ Become(TableSet(World, RawRow(FreshId(rows), name, parentId, t, trashed)))
  /\ steps' = steps + 1
  /\ hist' = [op |-> "load"]
  /\ UNCHANGED now

\* Construction of the index over the table as it stands.
Construct ==
  /\ ~observing
  /\ Become(createFileSystemIndex(World))
  /\ hist' = [op |-> "construct", raw |-> rows]
  /\ UNCHANGED <<now, steps>>

\* A change another replica made to one row arrives: the merge is one
\* transaction on the table, reported to the observer like a local one.
MergeUpdate(id, patch) ==
  /\ observing
  /\ id \in DOMAIN rows
  /\ steps < MaxDeliveries
  /\ Become(TableUpdate(World, id, patch))
  /\ steps' = steps + 1
  /\ hist' = [op |-> "merge", raw |-> UpdateRow(rows, id, patch)]
  /\ UNCHANGED now

\* A row another replica created arrives.
MergeSet(name, parentId, t, trashed) ==
  /\ observing
  /\ Cardinality(DOMAIN rows) < MaxRows
  /\ steps < MaxDeliveries
  /\ steps' = steps + 1
  /\ LET row == RawRow(FreshId(rows), name, parentId, t, trashed)
     IN /\ Become(TableSet(World, row))
        /\ hist' = [op |-> "merge",
                    raw |-> [i \in (DOMAIN rows) \cup {row.id} |->
                               IF i = row.id THEN row ELSE rows[i]]]
  /\ UNCHANGED now

\* The patches a merge delivers: a move, a rename, a tombstone.
MergePatches ==
  {[parentId |-> p, updatedAt |-> t] : p \in RawParents, t \in Times}
    \cup {[name |-> n] : n \in RawNames}
    \cup {[trashedAt |-> MaxTime]}

Init ==
  /\ rows = EmptyMap
  /\ order = <<>>
  /\ observing = FALSE
  /\ pathToId = EmptyMap
  /\ idToPath = EmptyMap
  /\ childrenOf = EmptyMap
  /\ plaintext = EmptyMap
  /\ docs = EmptyMap
  /\ store = EmptyMap
  /\ provider = FALSE
  /\ opened = 0
  /\ closed = 0
  /\ now = 1
  /\ steps = 0
  /\ hist = [op |-> "init"]

NextIndex ==
  \/ \E n \in RawNames, p \in RawParents, t \in Times, tr \in BOOLEAN : Load(n, p, t, tr)
  \/ Construct
  \/ \E id \in Ids, patch \in MergePatches : MergeUpdate(id, patch)
  \/ \E n \in RawNames, p \in RawParents, t \in Times, tr \in BOOLEAN : MergeSet(n, p, t, tr)

SpecIndex == Init /\ [][NextIndex]_vars

\* ------------------------------------------------------------------------
\* Deep trees: the table holds one chain of folders, row k + 1 inside row k,
\* and the index is constructed over it.
\* ------------------------------------------------------------------------
ChainLengths == (MAX_DEPTH - ChainSlack)..(MAX_DEPTH + ChainSlack)

ChainRows(len, leafName, t) ==
  [id \in {IdOf(k) : k \in 1..len} |->
     LET k == CHOOSE n \in 1..len : IdOf(n) = id
     IN FileRow(id, IF k = len THEN leafName ELSE "d",
                IF k = 1 THEN Null ELSE IdOf(k - 1),
                IF k = len THEN TypeOfName(leafName) ELSE "folder",
                0, t, t, NotTrashed)]

InitDepth ==
  /\ \E len \in ChainLengths, leafName \in Names, t \in Times, leafFirst \in BOOLEAN :
        /\ rows = ChainRows(len, leafName, t)
        /\ order = [k \in 1..len |-> IF leafFirst THEN IdOf(len + 1 - k) ELSE IdOf(k)]
  /\ observing = FALSE
  /\ pathToId = EmptyMap
  /\ idToPath = EmptyMap
  /\ childrenOf = EmptyMap
  /\ plaintext = EmptyMap
  /\ docs = EmptyMap
  /\ store = EmptyMap
  /\ provider = FALSE
  /\ opened = 0
  /\ closed = 0
  /\ now = 1
  /\ steps = 0
  /\ hist = [op |-> "init"]

NextDepth == Construct

SpecDepth == InitDepth /\ [][NextDepth]_vars

\* ------------------------------------------------------------------------
\* Markdown codec (markdown-helpers.js).  A front-matter record is kept as
\* the text of its 'key: value' lines, "" for the empty record; a rich-text
\* body is kept as the markdown it renders to.
\* ------------------------------------------------------------------------
FrontBlocks == {"k: v"}

Bodies == {"", "x", "y", "x "}

\* serializeMarkdownWithFrontmatter(frontmatter, body)
serializeMarkdownWithFrontmatter(frontmatter, body) ==
  IF frontmatter = "" THEN body
  ELSE "---\n" \o frontmatter \o "\n---\n" \o body

\* parseFrontmatter(text): a leading '---' block gives the record, the rest
\* is the body; without one the record is empty and the text is the body.
parseFrontmatter(text) ==
  LET split == {fb \in FrontBlocks \X Bodies :
                  serializeMarkdownWithFrontmatter(fb[1], fb[2]) = text}
  IN IF split = {} THEN [frontmatter |-> "", body |-> text]
     ELSE LET fb == CHOOSE x \in split : TRUE
          IN [frontmatter |-> fb[1], body |-> fb[2]]

\* updateYXmlFragmentFromString followed by serializeXmlFragmentToMarkdown:
\* the body as the rich-text structure renders it (trailing blanks dropped).
RenderBody(body) == IF body = "x " THEN "x" ELSE body

\* ------------------------------------------------------------------------
\* Content documents.  A Y.Doc is [text, richtext, frontmatter]: the Y.Text
\* 'text', the Y.XmlFragment 'richtext' (as rendered markdown, "" when it has
\* no nodes) and the Y.Map 'frontmatter'.
\* ------------------------------------------------------------------------
EmptyDoc == [text |-> "", richtext |-> "", frontmatter |-> ""]

getExtensionCategory(fileName) ==
  IF SplitName(fileName)[2] = ".md" THEN "richtext" ELSE "text"

convertContentType(ydoc, from, to) ==
  IF from = to THEN ydoc
  ELSE IF from = "text" /\ to = "richtext" THEN
    LET parsed == parseFrontmatter(ydoc.text)
    IN [ydoc EXCEPT !.frontmatter = parsed.frontmatter,
                    !.richtext = RenderBody(parsed.body)]
  ELSE [ydoc EXCEPT !.text = serializeMarkdownWithFrontmatter(ydoc.frontmatter, ydoc.richtext)]

healContentType(ydoc, fileName) ==
  IF getExtensionCategory(fileName) = "richtext" THEN
    IF ydoc.richtext = "" /\ ydoc.text # ""
    THEN convertContentType(ydoc, "text", "richtext") ELSE ydoc
  ELSE
    IF ydoc.text = "" /\ ydoc.richtext # ""
    THEN convertContentType(ydoc, "richtext", "text") ELSE ydoc

\* map.set(key, value) on a function
MapSet(m, key, value) ==
  [k \in (DOMAIN m) \cup {key} |-> IF k = key THEN value ELSE m[k]]

\* map.delete(key)
MapDelete(m, key) == [k \in (DOMAIN m) \ {key} |-> m[k]]

\* The Y.Doc of an open entry becomes ydoc; a connected provider stores a
\* document that holds content.
DocWrite(w, fileId, ydoc) ==
  [w EXCEPT !.docs = [@ EXCEPT ![fileId].ydoc = ydoc],
            !.store = IF w.provider /\ (ydoc # EmptyDoc \/ fileId \in DOMAIN @)
                      THEN MapSet(@, fileId, ydoc) ELSE @]

\* pool.acquire(fileId, fileName): the handle is w.docs[fileId] afterwards.
\* A new Y.Doc is empty unless the provider holds content for the file.
acquire(w, fileId, fileName) ==
  IF fileId \in DOMAIN w.docs
  THEN [w EXCEPT !.docs = [@ EXCEPT ![fileId].refcount = @ + 1]]
  ELSE LET ydoc == IF w.provider /\ fileId \in DOMAIN w.store
                   THEN w.store[fileId] ELSE EmptyDoc
       IN DocWrite([w EXCEPT !.docs = MapSet(@, fileId,
                      [type |-> getExtensionCategory(fileName),
                       refcount |-> 1, ydoc |-> ydoc]),
                             !.opened = @ + 1],
                   fileId, healContentType(ydoc, fileName))

\* A release that only counts down: the entry stays pooled at count 0.
ReleaseWithoutEviction(w, fileId) ==
  IF fileId \notin DOMAIN w.docs THEN w
  ELSE [w EXCEPT !.docs = [@ EXCEPT ![fileId].refcount = @ - 1]]

\* pool.release(fileId)
release(w, fileId) ==
  IF fileId \notin DOMAIN w.docs THEN w
  ELSE IF w.docs[fileId].refcount - 1 <= 0
       THEN [w EXCEPT !.docs = MapDelete(@, fileId), !.closed = @ + 1]
       ELSE [w EXCEPT !.docs = [@ EXCEPT ![fileId].refcount = @ - 1]]

documentHandleToString(handle) ==
  IF handle.type = "text" THEN handle.ydoc.text
  ELSE serializeMarkdownWithFrontmatter(handle.ydoc.frontmatter, handle.ydoc.richtext)

\* pool.loadAndCache(fileId, fileName): [w, text]
Loaded(acquired, fileId) ==
  [w |-> release(acquired, fileId),
   text |-> documentHandleToString(acquired.docs[fileId])]

\* A load that keeps the handle it acquired.
LoadWithoutRelease(w, fileId, fileName) ==
  [w |-> acquire(w, fileId, fileName),
   text |-> documentHandleToString(acquire(w, fileId, fileName).docs[fileId])]

loadAndCache(w, fileId, fileName) == Loaded(acquire(w, fileId, fileName), fileId)

\* pool.peek(fileId): the handle of the entry, or nothing (undefined).
peek(w, fileId) ==
  [w |-> w,
   ret |-> IF fileId \in DOMAIN w.docs
           THEN {[type |-> w.docs[fileId].type, ydoc |-> w.docs[fileId].ydoc]}
           ELSE {}]

\* ------------------------------------------------------------------------
\* YjsFileSystem.  Paths are already resolved (posixResolve).  An operation
\* returns [w, err, ret]: the world it leaves, "ok" or the code of the error
\* it throws, and the value it returns.
\* ------------------------------------------------------------------------
Ok(w) == [w |-> w, err |-> "ok", ret |-> ""]

Fail(w, code) == [w |-> w, err |-> code, ret |-> ""]

Front(path) == SubSeq(path, 1, Len(path) - 1)

\* validateName(name): TRUE when the name is accepted.
validateName(name) == name # ""

\* assertUniqueName(filesTable, childrenOf, parentId, name, excludeId): TRUE
\* when it throws, that is when an active child of the parent other than
\* excludeId carries the name.
NameTaken(w, parentId, name, excludeId) ==
  \E c \in Range(ChildrenGet(w.childrenOf, IF parentId = Null THEN ROOT_ID ELSE parentId)) :
    /\ c # excludeId
    /\ c \in DOMAIN w.rows
    /\ w.rows[c].trashedAt = NotTrashed
    /\ w.rows[c].name = name

exists(w, path) == path = <<>> \/ path \in DOMAIN w.pathToId

\* resolveId(path): [err, id]
resolveId(w, path) ==
  IF path = <<>> THEN [err |-> "ok", id |-> ROOT_ID]
  ELSE IF path \in DOMAIN w.pathToId THEN [err |-> "ok", id |-> w.pathToId[path]]
  ELSE [err |-> "ENOENT", id |-> MissingId]

\* getRow(id, path) succeeds exactly for the ids of the table.
getRow(w, id) == IF id \in DOMAIN w.rows THEN "ok" ELSE "ENOENT"

\* getActiveChildren(childIds), as ids
getActiveChildren(w, childIds) ==
  SelectSeq(childIds,
    LAMBDA c : c \in DOMAIN w.rows /\ w.rows[c].trashedAt = NotTrashed)

\* parsePath(path): [err, parentId, name]
parsePath(w, path) ==
  LET name == IF path = <<>> THEN "" ELSE path[Len(path)]
  IN IF Len(path) <= 1 THEN [err |-> "ok", parentId |-> Null, name |-> name]
     ELSE IF Front(path) \in DOMAIN w.pathToId
          THEN [err |-> "ok", parentId |-> w.pathToId[Front(path)], name |-> name]
          ELSE [err |-> "ENOENT", parentId |-> Null, name |-> name]

\* The slow path of readFile: the loaded text is cached and returned.
ReadLoaded(loaded, id) ==
  [w |-> [loaded.w EXCEPT !.plaintext = MapSet(@, id, loaded.text)],
   err |-> "ok", ret |-> loaded.text]

readFile(w, path) ==
  LET res == resolveId(w, path)
      id == res.id
  IN IF res.err # "ok" THEN Fail(w, res.err)
     ELSE IF getRow(w, id) # "ok" THEN Fail(w, "ENOENT")
     ELSE IF w.rows[id].type = "folder" THEN Fail(w, "EISDIR")
     ELSE IF id \in DOMAIN w.plaintext
          THEN [w |-> w, err |-> "ok", ret |-> w.plaintext[id]]
          ELSE ReadLoaded(loadAndCache(w, id, w.rows[id].name), id)

\* The content written through the handle of an acquired entry.
WriteThrough(handle, content) ==
  IF handle.type = "text" THEN [handle.ydoc EXCEPT !.text = content]
  ELSE LET parsed == parseFrontmatter(content)
       IN [handle.ydoc EXCEPT !.frontmatter = parsed.frontmatter,
                              !.richtext = RenderBody(parsed.body)]

\* handle.ydoc after the write through the handle.
Written(acquired, id, content) ==
  DocWrite(acquired, id, WriteThrough(acquired.docs[id], content))

\* index.plaintext.set(id, content)
CachePut(w, id, content) == [w EXCEPT !.plaintext = MapSet(@, id, content)]

\* A write that leaves the size the row had.
WriteContentKeepingSize(w, id, content, t) ==
  IF getRow(w, id) # "ok" THEN Fail(w, "ENOENT")
  ELSE Ok(CachePut(
            TableUpdate(
              release(Written(acquire(w, id, w.rows[id].name), id, content), id),
              id, [updatedAt |-> t]),
            id, content))

\* "Write content through Yjs" and what follows it in writeFile: the row of
\* id, the handle, the write, the release, the size and the cache.
WriteContent(w, id, content, t) ==
  IF getRow(w, id) # "ok" THEN Fail(w, "ENOENT")
  ELSE Ok(CachePut(
            TableUpdate(
              release(Written(acquire(w, id, w.rows[id].name), id, content), id),
              id, [size |-> Len(content), updatedAt |-> t]),
            id, content))

writeFile(w, path, content, t) ==
  LET found == exists(w, path)
      parsed == parsePath(w, path)
  IN IF ~found /\ parsed.err # "ok" THEN Fail(w, parsed.err)
     ELSE IF ~found /\ ~validateName(parsed.name) THEN Fail(w, "EINVAL")
     ELSE IF ~found /\ NameTaken(w, parsed.parentId, parsed.name, MissingId)
          THEN Fail(w, "EEXIST")
     ELSE
       LET id == IF found THEN resolveId(w, path).id ELSE FreshId(w.rows)
       IN WriteContent(
            IF found THEN w
            ELSE TableSet(w, FileRow(id, parsed.name, parsed.parentId, "file",
                                     Len(content), t, t, NotTrashed)),
            id, content, t)

\* appendFile once the existing content is read: a full write of the two.
Appended(existing, path, content, t) ==
  IF existing.err # "ok" THEN existing
  ELSE writeFile(existing.w, path, existing.ret \o content, t)

appendFile(w, path, content, t) ==
  IF path \notin DOMAIN w.pathToId THEN writeFile(w, path, content, t)
  ELSE Appended(readFile(w, path), path, content, t)

\* The loop of mkdir with recursive: the prefixes of the path from root down.
RECURSIVE MkdirFrom(_, _, _, _)
MkdirFrom(k, path, w, t) ==
  IF k > Len(path) THEN Ok(w)
  ELSE
    LET currentPath == SubSeq(path, 1, k)
        part == path[k]
        parsed == parsePath(w, currentPath)
    IN IF exists(w, currentPath) THEN MkdirFrom(k + 1, path, w, t)
       ELSE IF ~validateName(part) THEN Fail(w, "EINVAL")
       ELSE IF parsed.err # "ok" THEN Fail(w, parsed.err)
       ELSE IF NameTaken(w, parsed.parentId, part, MissingId) THEN Fail(w, "EEXIST")
       ELSE MkdirFrom(k + 1, path,
              TableSet(w, FileRow(FreshId(w.rows), part, parsed.parentId, "folder",
                                  0, t, t, NotTrashed)),
              t)

mkdir(w, path, recursive, t) ==
  IF exists(w, path) THEN Ok(w)
  ELSE IF recursive THEN MkdirFrom(1, path, w, t)
  ELSE
    LET parsed == parsePath(w, path)
    IN IF parsed.err # "ok" THEN Fail(w, parsed.err)
       ELSE IF ~validateName(parsed.name) THEN Fail(w, "EINVAL")
       ELSE IF NameTaken(w, parsed.parentId, parsed.name, MissingId) THEN Fail(w, "EEXIST")
       ELSE Ok(TableSet(w, FileRow(FreshId(w.rows), parsed.name, parsed.parentId,
                                   "folder", 0, t, t, NotTrashed)))

\* softDeleteDescendants(parentId): the list of children is the one the
\* index holds when the call starts; each child is looked up in the table
\* as it is when its turn comes.
\* index.plaintext.delete(id)
CacheDrop(w, id) == [w EXCEPT !.plaintext = MapDelete(@, id)]

\* The soft delete of one row: trashedAt is set and its cache entry dropped.
Trashed(w, id, t) == CacheDrop(TableUpdate(w, id, [trashedAt |-> t]), id)

RECURSIVE SoftDeleteFrom(_, _, _, _)
RECURSIVE SoftDeleteBelow(_, _, _, _)
SoftDeleteFrom(k, children, w, t) ==
  IF k > Len(children) THEN w
  ELSE
    LET cid == children[k]
    IN IF cid \notin DOMAIN w.rows \/ w.rows[cid].trashedAt # NotTrashed
       THEN SoftDeleteFrom(k + 1, children, w, t)
       ELSE SoftDeleteFrom(k + 1, children,
              SoftDeleteBelow(Trashed(w, cid, t), cid, w.rows[cid].type = "folder", t),
              t)

\* The recursion of softDeleteDescendants into a child that is a folder.
SoftDeleteBelow(w, cid, wasFolder, t) ==
  IF wasFolder THEN SoftDeleteFrom(1, ChildrenGet(w.childrenOf, cid), w, t) ELSE w

softDeleteDescendants(w, parentId, t) ==
  SoftDeleteFrom(1, ChildrenGet(w.childrenOf, parentId), w, t)

\* "If recursive, soft-delete children too"
RmBelow(w, id, descend, t) ==
  IF descend THEN softDeleteDescendants(w, id, t) ELSE w

rm(w, path, recursive, force, t) ==
  IF ~exists(w, path)
  THEN IF force THEN Ok(w) ELSE Fail(w, "ENOENT")
  ELSE
    LET id == resolveId(w, path).id
    IN IF getRow(w, id) # "ok" THEN Fail(w, "ENOENT")
       ELSE IF /\ w.rows[id].type = "folder"
               /\ ~recursive
               /\ Len(getActiveChildren(w, ChildrenGet(w.childrenOf, id))) > 0
            THEN Fail(w, "ENOTEMPTY")
       ELSE Ok(RmBelow(Trashed(w, id, t), id, w.rows[id].type = "folder" /\ recursive, t))

\* mv across extension categories once the content is read: the cache entry
\* is dropped, the row updated, the content written again at dest.
MvConverted(content, id, patch, dest, t) ==
  IF content.err # "ok" THEN content
  ELSE writeFile(TableUpdate(CacheDrop(content.w, id), id, patch), dest, content.ret, t)

mv(w, src, dest, t) ==
  LET res == resolveId(w, src)
      id == res.id
      parsed == parsePath(w, dest)
      patch == [name |-> parsed.name, parentId |-> parsed.parentId, updatedAt |-> t]
  IN IF res.err # "ok" THEN Fail(w, res.err)
     ELSE IF getRow(w, id) # "ok" THEN Fail(w, "ENOENT")
     ELSE IF parsed.err # "ok" THEN Fail(w, parsed.err)
     ELSE IF ~validateName(parsed.name) THEN Fail(w, "EINVAL")
     ELSE IF NameTaken(w, parsed.parentId, parsed.name, id) THEN Fail(w, "EEXIST")
     ELSE IF /\ w.rows[id].type = "file"
             /\ getExtensionCategory(w.rows[id].name) # getExtensionCategory(parsed.name)
          THEN MvConverted(readFile(w, src), id, patch, dest, t)
     ELSE Ok(TableUpdate(w, id, patch))

\* ------------------------------------------------------------------------
\* Properties of the index
\* ------------------------------------------------------------------------
Active(r) == {i \in DOMAIN r : r[i].trashedAt = NotTrashed}

\* Following parentId from id reaches null without visiting a row twice.
RECURSIVE ReachesRoot(_, _, _)
ReachesRoot(id, seen, r) ==
  IF id = Null THEN TRUE
  ELSE IF id \in seen \/ id \notin DOMAIN r THEN FALSE
  ELSE ReachesRoot(r[id].parentId, seen \cup {id}, r)

\* The rows met when following parentId from id (id included).
RECURSIVE Chain(_, _, _)
Chain(id, seen, r) ==
  IF id = Null \/ id \in seen \/ id \notin DOMAIN r THEN seen
  ELSE Chain(r[id].parentId, seen \cup {id}, r)

\* id lies on a parent cycle of r.
OnCycle(id, r) ==
  /\ id \in DOMAIN r
  /\ r[id].parentId # Null
  /\ id \in Chain(r[id].parentId, {}, r)

\* The cycle that following parentId from id runs into (empty if none).
CycleReached(id, r) == {m \in Chain(id, {}, r) : OnCycle(m, r)}

\* An active row whose parentId names no active row.
IsOrphan(id, r) ==
  /\ id \in Active(r)
  /\ r[id].parentId # Null
  /\ r[id].parentId \notin Active(r)

AfterRebuild == observing /\ hist.op \in {"construct", "merge"}

\* C3: after every rebuild, the parentId chain of every active row reaches
\* null without visiting a row twice.
C3_ChainsReachRoot ==
  observing => \A i \in Active(rows) : ReachesRoot(i, {}, rows)

\* A rebuild ran on rows holding two cycles, one of them passing through a
\* trashed row and an active one.
C3_Witness ==
  /\ AfterRebuild
  /\ \E i, j \in Active(hist.raw) :
        /\ OnCycle(i, hist.raw)
        /\ OnCycle(j, hist.raw)
        /\ CycleReached(i, hist.raw) # CycleReached(j, hist.raw)
        /\ \E m \in CycleReached(i, hist.raw) : hist.raw[m].trashedAt # NotTrashed

\* C4: pathToId and idToPath are inverse maps, '/' and ROOT are paired, ROOT
\* is no row, every other indexed id is an active row and has a path, and no
\* two active rows share a path.
C4_IndexBijective ==
  observing =>
    /\ \A p \in DOMAIN pathToId :
          pathToId[p] \in DOMAIN idToPath /\ idToPath[pathToId[p]] = p
    /\ \A i \in DOMAIN idToPath :
          idToPath[i] \in DOMAIN pathToId /\ pathToId[idToPath[i]] = i
    /\ <<>> \in DOMAIN pathToId /\ pathToId[<<>>] = ROOT_ID
    /\ ROOT_ID \notin DOMAIN rows
    /\ (DOMAIN idToPath) \ {ROOT_ID} \subseteq Active(rows)
    /\ \A i, j \in (DOMAIN idToPath) \ {ROOT_ID} :
          i # j => idToPath[i] # idToPath[j]

\* The name a row is shown under: the last segment of its path.
DisplayName(id) == idToPath[id][Len(idToPath[id])]

\* C5: within each parent, no two active children have the same display name.
C5_SiblingNamesDistinct ==
  observing =>
    \A i, j \in Active(rows) \cap DOMAIN idToPath :
      (i # j /\ rows[i].parentId = rows[j].parentId) => DisplayName(i) # DisplayName(j)

\* The forms a display name of a row named name can take.
DisplayForms(name) == {name} \cup {SuffixedName(name, k) : k \in 1..MaxRows}

\* C6: after a rebuild every active row's parentId is null or names an active
\* row; a row that arrived with a parentId naming no active row has parentId
\* null, is indexed at '/<display name>' and is listed under ROOT.
C6_OrphansAtRoot ==
  AfterRebuild =>
    /\ \A i \in Active(rows) :
          rows[i].parentId = Null \/ rows[i].parentId \in Active(rows)
    /\ \A i \in DOMAIN hist.raw :
          IsOrphan(i, hist.raw) =>
            /\ rows[i].parentId = Null
            /\ i \in DOMAIN idToPath
            /\ Len(idToPath[i]) = 1
            /\ idToPath[i][1] \in DisplayForms(rows[i].name)
            /\ idToPath[i] \in DOMAIN pathToId
            /\ pathToId[idToPath[i]] = i
            /\ i \in Range(ChildrenGet(childrenOf, ROOT_ID))

\* C7: the repair of a cycle nulls the parentId of a member with the
\* greatest updatedAt and of no other member; a row that is on no cycle and
\* is no orphan keeps its parentId.
C7_CycleRepairFrame ==
  AfterRebuild =>
    /\ \A i \in Active(hist.raw) :
          LET cycle == CycleReached(i, hist.raw)
          IN cycle # {} =>
               \E m \in cycle :
                 /\ rows[m].parentId = Null
                 /\ \A o \in cycle : hist.raw[o].updatedAt <= hist.raw[m].updatedAt
                 /\ \A o \in cycle \ {m} :
                       ~IsOrphan(o, hist.raw) => rows[o].parentId = hist.raw[o].parentId
    /\ \A i \in DOMAIN hist.raw :
          (~OnCycle(i, hist.raw) /\ ~IsOrphan(i, hist.raw))
            => rows[i].parentId = hist.raw[i].parentId

\* The orders in which getAllValid can list the rows of r.
Orders(r) ==
  {o \in [1..Cardinality(DOMAIN r) -> DOMAIN r] :
     \A a, b \in 1..Cardinality(DOMAIN r) : a # b => o[a] # o[b]}

\* C8: among active siblings of one name, the earliest created is indexed
\* under the bare name and the k-th later one under 'name (k).ext'; the
\* paths depend on the rows only, not on the order they are listed in
\* (rows created at distinct times).
C8_CreationOrderNames ==
  observing =>
    /\ \A i \in Active(rows) :
          LET same == {j \in Active(rows) :
                         /\ rows[j].parentId = rows[i].parentId
                         /\ rows[j].name = rows[i].name}
              earlier == {j \in same : rows[j].createdAt < rows[i].createdAt}
          IN (\A j, k \in same : j # k => rows[j].createdAt # rows[k].createdAt)
               => /\ i \in DOMAIN idToPath
                  /\ DisplayName(i) =
                       IF earlier = {} THEN rows[i].name
                       ELSE SuffixedName(rows[i].name, Cardinality(earlier))
    /\ (/\ hist.op = "construct"
        /\ \A j, k \in DOMAIN hist.raw :
              j # k => hist.raw[j].createdAt # hist.raw[k].createdAt)
          => \A o \in Orders(hist.raw) : rebuild(hist.raw, o).idToPath = idToPath

\* C10: the index a facade call reads is the one a rebuild computes from the
\* rows as they are now.
C10_IndexCurrent ==
  observing =>
    LET r == rebuild(rows, order)
    IN /\ pathToId = r.pathToId
       /\ idToPath = r.idToPath
       /\ \A k \in Ids \cup {ROOT_ID, MissingId} :
             ChildrenGet(childrenOf, k) = ChildrenGet(r.childrenOf, k)

\* The number of rows on the parentId chain of id, id included.
ChainLength(id, r) == Cardinality(Chain(id, {}, r))

\* C9: an active row has a path in the index exactly when its chain to root
\* has at most MAX_DEPTH rows, itself included.
C9_DepthBound ==
  observing =>
    \A i \in Active(rows) :
      (ChainLength(i, rows) <= MAX_DEPTH) <=> (i \in DOMAIN idToPath)

\* ------------------------------------------------------------------------
\* Calls on the facade of one replica.  The index is constructed over an
\* empty table; every call runs to completion (single writer per process).
\* ------------------------------------------------------------------------
FacadePaths ==
  { <<>>, <<"d">>, <<"a.txt">>, <<"n.md">>,
    <<"d", "a.txt">>, <<"d", "d">>, <<"d", "d", "a.txt">> }

Contents == {"x", "y"}

\* Room in the table for n more rows.
Room(n) == Cardinality(DOMAIN rows) + n <= MaxRows

IsPrefix(p, q) == Len(p) <= Len(q) /\ SubSeq(q, 1, Len(p)) = p

\* The expectations that survive a call aimed at path (the file there, or
\* a folder above it).
Forget(written, path) ==
  [p \in {q \in DOMAIN written : ~IsPrefix(path, q)} |-> written[p]]

\* The active rows of r below the row target.
Descendants(target, r) ==
  {i \in Active(r) : i # target /\ target \in Chain(i, {}, r)}

\* The variables hold the world w.
Starts(w) ==
  /\ rows = w.rows
  /\ order = w.order
  /\ observing = w.observing
  /\ pathToId = w.pathToId
  /\ idToPath = w.idToPath
  /\ childrenOf = w.childrenOf
  /\ plaintext = w.plaintext
  /\ docs = w.docs
  /\ store = w.store
  /\ provider = w.provider
  /\ opened = w.opened
  /\ closed = w.closed

InitFacade ==
  /\ \E p \in BOOLEAN :
       Starts(createFileSystemIndex(
                [rows |-> EmptyMap, order |-> <<>>, observing |-> FALSE,
                 pathToId |-> EmptyMap, idToPath |-> EmptyMap,
                 childrenOf |-> EmptyMap, plaintext |-> EmptyMap,
                 docs |-> EmptyMap, store |-> EmptyMap, provider |-> p,
                 opened |-> 0, closed |-> 0]))
  /\ now = 1
  /\ steps = 0
  /\ hist = [op |-> "open", written |-> EmptyMap]

\* A call returned r: the world is the one it left; written is what is
\* expected of readFile from now on (onOk when the call returned, onError
\* when it threw).
Returns(r, onOk, onError) ==
  /\ Become(r.w)
  /\ hist' = [op |-> "call", written |-> IF r.err = "ok" THEN onOk ELSE onError]

\* rm returned r; target is the row the path named and subtree its active
\* descendants when rm was called.
Removed(r, recursive, target, written) ==
  /\ Become(r.w)
  /\ hist' = [op |-> "rm", recursive |-> recursive, err |-> r.err,
              target |-> target, subtree |-> Descendants(target, rows),
              written |-> written]

WriteFile(path, content) ==
  /\ observing
  /\ steps < MaxCalls
  /\ steps' = steps + 1
  /\ Room(IF path \in DOMAIN pathToId THEN 0 ELSE 1)
  /\ Returns(writeFile(World, path, content, now),
             MapSet(hist.written, path, content), Forget(hist.written, path))
  /\ UNCHANGED now

ReadFile(path) ==
  /\ observing
  /\ steps < MaxCalls
  /\ steps' = steps + 1
  /\ Returns(readFile(World, path), hist.written, hist.written)
  /\ UNCHANGED now

AppendFile(path, content) ==
  /\ observing
  /\ steps < MaxCalls
  /\ steps' = steps + 1
  /\ Room(IF path \in DOMAIN pathToId THEN 0 ELSE 1)
  /\ \A i \in DOMAIN plaintext : Len(plaintext[i]) + Len(content) <= MaxContent
  /\ Returns(appendFile(World, path, content, now),
             Forget(hist.written, path), Forget(hist.written, path))
  /\ UNCHANGED now

Mkdir(path, recursive) ==
  /\ observing
  /\ steps < MaxCalls
  /\ steps' = steps + 1
  /\ Room(IF exists(World, path) THEN 0 ELSE IF recursive THEN Len(path) ELSE 1)
  /\ Returns(mkdir(World, path, recursive, now), hist.written, hist.written)
  /\ UNCHANGED now

Rm(path, recursive, force) ==
  /\ observing
  /\ steps < MaxCalls
  /\ steps' = steps + 1
  /\ Removed(rm(World, path, recursive, force, now), recursive,
             IF path \in DOMAIN pathToId THEN pathToId[path] ELSE MissingId,
             Forget(hist.written, path))
  /\ UNCHANGED now

Mv(src, dest) ==
  /\ observing
  /\ steps < MaxCalls
  /\ steps' = steps + 1
  /\ Returns(mv(World, src, dest, now),
             Forget(Forget(hist.written, src), dest),
             Forget(Forget(hist.written, src), dest))
  /\ UNCHANGED now

\* Time passes between two calls.
Tick ==
  /\ observing
  /\ now < MaxTime
  /\ now' = now + 1
  /\ UNCHANGED <<rows, order, observing, pathToId, idToPath, childrenOf, plaintext,
                 docs, store, provider, opened, closed, steps, hist>>

Next ==
  \/ \E path \in FacadePaths, c \in Contents : WriteFile(path, c)
  \/ \E path \in FacadePaths : ReadFile(path)
  \/ \E path \in FacadePaths, c \in Contents : AppendFile(path, c)
  \/ \E path \in FacadePaths, recursive \in BOOLEAN : Mkdir(path, recursive)
  \/ \E path \in FacadePaths, recursive \in BOOLEAN, force \in BOOLEAN :
        Rm(path, recursive, force)
  \/ \E src \in FacadePaths, dest \in FacadePaths : Mv(src, dest)
  \/ Tick

Spec == InitFacade /\ [][Next]_vars

\* ------------------------------------------------------------------------
\* Properties of the facade
\* ------------------------------------------------------------------------
\* C1: after rm(path, {recursive: true}) on a folder returns, the folder row
\* and every row that was an active descendant of it when rm was called are
\* trashed, and none of them is in the index.
C1_RmRecursiveTrashesSubtree ==
  (/\ hist.op = "rm" /\ hist.recursive /\ hist.err = "ok"
   /\ hist.target \in DOMAIN rows /\ rows[hist.target].type = "folder")
    => \A i \in {hist.target} \cup hist.subtree :
         /\ rows[i].trashedAt # NotTrashed
         /\ i \notin DOMAIN idToPath
         /\ \A p \in DOMAIN pathToId : pathToId[p] # i

\* C2: a path whose name does not end in .md, once written with c by a
\* writeFile that returned, reads back as exactly c until a writeFile,
\* appendFile, rm or mv is aimed at it.
C2_WriteReadRoundTrip ==
  "written" \in DOMAIN hist =>
    \A p \in DOMAIN hist.written :
      getExtensionCategory(p[Len(p)]) = "text" =>
        LET r == readFile(World, p)
        IN r.err = "ok" /\ r.ret = hist.written[p]

\* ------------------------------------------------------------------------
\* The content pool on its own: callers acquire and release handles, write
\* through a handle they hold, and the sync provider brings in documents
\* other replicas wrote.
\* ------------------------------------------------------------------------
MaxRefs == 2

MaxPoolSteps == 4

PoolIds == {IdOf(1), IdOf(2)}

PoolNames == {"a.txt", "n.md"}

\* The states of a Y.Doc another replica can have left.
SyncedDocs ==
  [text : {"", "x", serializeMarkdownWithFrontmatter("k: v", "")},
   richtext : {"", "y"},
   frontmatter : {"", "k: v"}]

PoolContents == {"x", "y", serializeMarkdownWithFrontmatter("k: v", "")}

NoCalls == [id \in PoolIds |-> 0]

InitPool ==
  /\ \E p \in BOOLEAN :
       Starts([rows |-> EmptyMap, order |-> <<>>, observing |-> FALSE,
               pathToId |-> EmptyMap, idToPath |-> EmptyMap,
               childrenOf |-> EmptyMap, plaintext |-> EmptyMap,
               docs |-> EmptyMap, store |-> EmptyMap, provider |-> p,
               opened |-> 0, closed |-> 0])
  /\ now = 1
  /\ steps = 0
  /\ hist = [op |-> "pool", id |-> MissingId, name |-> "", pre |-> EmptyMap,
             acq |-> NoCalls, rel |-> NoCalls]

\* One call on the pool left the world w.  acq and rel count, per file, the
\* acquire and release calls made since its entry was created.
PoolStep(w, op, fileId, fileName, acq, rel) ==
  /\ steps < MaxPoolSteps
  /\ steps' = steps + 1
  /\ Become(w)
  /\ hist' = [op |-> op, id |-> fileId, name |-> fileName, pre |-> World,
              acq |-> acq, rel |-> rel]
  /\ UNCHANGED now

PoolAcquire(fileId, fileName) ==
  /\ fileId \in DOMAIN docs => docs[fileId].refcount < MaxRefs
  /\ PoolStep(acquire(World, fileId, fileName), "acquire", fileId, fileName,
              [hist.acq EXCEPT ![fileId] = IF fileId \in DOMAIN docs THEN @ + 1 ELSE 1],
              [hist.rel EXCEPT ![fileId] = IF fileId \in DOMAIN docs THEN @ ELSE 0])

PoolRelease(fileId) ==
  /\ ~observing
  /\ PoolStep(release(World, fileId), "release", fileId, "", hist.acq,
              [hist.rel EXCEPT ![fileId] = IF fileId \in DOMAIN docs THEN @ + 1 ELSE @])

\* The holder of a handle writes through it, as writeFile does.
PoolWrite(fileId, content) ==
  /\ fileId \in DOMAIN docs
  /\ PoolStep(Written(World, fileId, content), "write", fileId, "", hist.acq, hist.rel)

\* The provider receives the document of a file no handle is open for.
PoolSync(fileId, ydoc) ==
  /\ provider
  /\ fileId \notin DOMAIN docs
  /\ PoolStep([World EXCEPT !.store = MapSet(@, fileId, ydoc)], "sync", fileId, "",
              hist.acq, hist.rel)

NextPool ==
  \/ \E fileId \in PoolIds, fileName \in PoolNames : PoolAcquire(fileId, fileName)
  \/ \E fileId \in PoolIds : PoolRelease(fileId)
  \/ \E fileId \in PoolIds, content \in PoolContents : PoolWrite(fileId, content)
  \/ \E fileId \in PoolIds, ydoc \in SyncedDocs : PoolSync(fileId, ydoc)

SpecPool == InitPool /\ [][NextPool]_vars

\* ------------------------------------------------------------------------
\* Properties of the pool and of the converter
\* ------------------------------------------------------------------------
\* The last call was an acquire that found no entry / found one.
AcquireMiss == hist.op = "acquire" /\ hist.id \notin DOMAIN hist.pre.docs

AcquireHit == hist.op = "acquire" /\ hist.id \in DOMAIN hist.pre.docs

\* What a new Y.Doc of the file holds once the provider is attached.
ProviderDoc(w, fileId) ==
  IF w.provider /\ fileId \in DOMAIN w.store THEN w.store[fileId] ELSE EmptyDoc

OtherCategory(category) == IF category = "text" THEN "richtext" ELSE "text"

\* A variant holds content: the text is not empty; the rich text has a body
\* or front matter.
HoldsContent(ydoc, category) ==
  IF category = "text" THEN ydoc.text # ""
  ELSE ydoc.richtext # "" \/ ydoc.frontmatter # ""

\* C11: per file the refcount is acquires minus releases since the entry was
\* created; a hit adds 1 and returns the same handle without opening a
\* document; the entry exists exactly while the count is above 0; the
\* release that brings it to 0 destroys the document once and evicts the
\* entry, and the next acquire opens a fresh document.
C11_RefcountBalance ==
  hist.op \in {"acquire", "release", "write", "sync"} =>
    /\ \A id \in PoolIds :
         /\ (id \in DOMAIN docs) <=> (hist.acq[id] - hist.rel[id] > 0)
         /\ id \in DOMAIN docs => docs[id].refcount = hist.acq[id] - hist.rel[id]
    /\ opened - closed = Cardinality(DOMAIN docs)
    /\ AcquireHit =>
         /\ docs[hist.id] = [hist.pre.docs[hist.id] EXCEPT !.refcount = @ + 1]
         /\ opened = hist.pre.opened
         /\ closed = hist.pre.closed
    /\ AcquireMiss =>
         /\ docs[hist.id].refcount = 1
         /\ docs[hist.id].ydoc = healContentType(ProviderDoc(hist.pre, hist.id), hist.name)
         /\ opened = hist.pre.opened + 1
         /\ closed = hist.pre.closed
    /\ hist.op = "release" =>
         /\ opened = hist.pre.opened
         /\ closed = hist.pre.closed +
              (IF hist.id \in DOMAIN hist.pre.docs /\ hist.pre.docs[hist.id].refcount = 1
               THEN 1 ELSE 0)

\* A file acquired twice and released twice: its entry is gone.
C11_Witness ==
  /\ hist.op = "release"
  /\ \E id \in PoolIds :
       /\ hist.id = id
       /\ hist.acq[id] = 2
       /\ hist.rel[id] = 2
       /\ id \notin DOMAIN docs
       /\ closed = 1

\* C13: the handle acquire(fileId, fileName) returns has the variant of
\* getExtensionCategory(fileName), also when an entry for fileId is pooled.
C13_HandleVariantByName ==
  hist.op = "acquire" => docs[hist.id].type = getExtensionCategory(hist.name)

\* C15: on a fresh open the document is converted exactly when the variant
\* the name expects is empty and the other variant holds content, and then
\* the expected variant holds the converted content; the handle acquire
\* returns is over the healed document.
C15_HealConvertsWhenExpectedEmpty ==
  AcquireMiss =>
    LET loaded == ProviderDoc(hist.pre, hist.id)
        expected == getExtensionCategory(hist.name)
    IN docs[hist.id].ydoc =
         IF ~HoldsContent(loaded, expected) /\ HoldsContent(loaded, OtherCategory(expected))
         THEN convertContentType(loaded, OtherCategory(expected), expected)
         ELSE loaded

\* C16: convertContentType(doc, X, X) changes nothing; healContentType
\* changes nothing on a document whose expected variant holds content and
\* nothing on an empty document; healing twice is healing once.
C16_ConvertHealNoOps ==
  AcquireMiss =>
    LET loaded == ProviderDoc(hist.pre, hist.id)
        healed == docs[hist.id].ydoc
    IN /\ convertContentType(healed, "text", "text") = healed
       /\ convertContentType(healed, "richtext", "richtext") = healed
       /\ HoldsContent(loaded, getExtensionCategory(hist.name)) => healed = loaded
       /\ loaded = EmptyDoc => healed = EmptyDoc
       /\ healContentType(healed, hist.name) = healed

\* ------------------------------------------------------------------------
\* Calls on the facade that the codec interrupts.  The markdown codec is a
\* collaborator: a call into it can throw, and the exception leaves the
\* facade call where it was raised.
\* ------------------------------------------------------------------------
\* loadAndCache when documentHandleToString throws: the handle is acquired,
\* the exception leaves loadAndCache before its release.
loadAndCacheThrown(w, fileId, fileName) ==
  Fail(acquire(w, fileId, fileName), "thrown")

\* readFile when the serialization of the loaded document throws.
readFileThrown(w, path) ==
  LET res == resolveId(w, path)
      id == res.id
  IN IF res.err # "ok" THEN Fail(w, res.err)
     ELSE IF getRow(w, id) # "ok" THEN Fail(w, "ENOENT")
     ELSE IF w.rows[id].type = "folder" THEN Fail(w, "EISDIR")
     ELSE IF id \in DOMAIN w.plaintext
          THEN [w |-> w, err |-> "ok", ret |-> w.plaintext[id]]
          ELSE loadAndCacheThrown(w, id, w.rows[id].name)

\* "Write content through Yjs" when the write inside the try block throws:
\* the finally releases, the size update and the cache are not reached.
WriteContentThrown(w, id) ==
  IF getRow(w, id) # "ok" THEN Fail(w, "ENOENT")
  ELSE Fail(release(acquire(w, id, w.rows[id].name), id), "thrown")

\* writeFile when parsing or applying the content throws.
writeFileThrown(w, path, content, t) ==
  LET found == exists(w, path)
      parsed == parsePath(w, path)
  IN IF ~found /\ parsed.err # "ok" THEN Fail(w, parsed.err)
     ELSE IF ~found /\ ~validateName(parsed.name) THEN Fail(w, "EINVAL")
     ELSE IF ~found /\ NameTaken(w, parsed.parentId, parsed.name, MissingId)
          THEN Fail(w, "EEXIST")
     ELSE
       LET id == IF found THEN resolveId(w, path).id ELSE FreshId(w.rows)
       IN WriteContentThrown(
            IF found THEN w
            ELSE TableSet(w, FileRow(id, parsed.name, parsed.parentId, "file",
                                     Len(content), t, t, NotTrashed)),
            id)

\* ------------------------------------------------------------------------
\* Calls on the facade, each remembered with the world it started from.
\* ------------------------------------------------------------------------
FilePaths ==
  { <<"a.txt">>, <<"n.md">>, <<"d">>, <<"e">>, <<"d", "a.txt">>,
    <<"a.txt", "a.txt">> }

InitFiles ==
  /\ \E p \in BOOLEAN :
       Starts(createFileSystemIndex(
                [rows |-> EmptyMap, order |-> <<>>, observing |-> FALSE,
                 pathToId |-> EmptyMap, idToPath |-> EmptyMap,
                 childrenOf |-> EmptyMap, plaintext |-> EmptyMap,
                 docs |-> EmptyMap, store |-> EmptyMap, provider |-> p,
                 opened |-> 0, closed |-> 0]))
  /\ now = 1
  /\ steps = 0
  /\ hist = [op |-> "open", src |-> <<>>, dest |-> <<>>, content |-> "",
             err |-> "ok", pre |-> EmptyMap]

\* The call op(src, dest, content) returned or threw r.
FilesCall(r, op, src, dest, content) ==
  /\ observing
  /\ steps < MaxCalls
  /\ steps' = steps + 1
  /\ Become(r.w)
  /\ hist' = [op |-> op, src |-> src, dest |-> dest, content |-> content,
              err |-> r.err, pre |-> World]
  /\ UNCHANGED now

FilesWrite(path, content) ==
  /\ Room(IF path \in DOMAIN pathToId THEN 0 ELSE 1)
  /\ FilesCall(writeFile(World, path, content, now), "write", path, path, content)

FilesWriteThrown(path, content) ==
  /\ Room(IF path \in DOMAIN pathToId THEN 0 ELSE 1)
  /\ FilesCall(writeFileThrown(World, path, content, now), "writeThrown", path, path, content)

FilesRead(path) ==
  /\ observing
  /\ FilesCall(readFile(World, path), "read", path, path, "")

FilesReadThrown(path) ==
  /\ observing
  /\ FilesCall(readFileThrown(World, path), "readThrown", path, path, "")

FilesMkdir(path, recursive) ==
  /\ Room(IF exists(World, path) THEN 0 ELSE IF recursive THEN Len(path) ELSE 1)
  /\ FilesCall(mkdir(World, path, recursive, now), "mkdir", path, path, "")

FilesMv(src, dest) ==
  /\ observing
  /\ FilesCall(mv(World, src, dest, now), "mv", src, dest, "")

\* The process ends and a new one opens the same workspace: the index is
\* built again, the cache and the pool start empty, the provider keeps the
\* documents.
FilesReopen ==
  /\ observing
  /\ plaintext # EmptyMap
  /\ Become(createFileSystemIndex(
              [World EXCEPT !.observing = FALSE, !.plaintext = EmptyMap,
                            !.docs = EmptyMap, !.opened = 0, !.closed = 0]))
  /\ hist' = [op |-> "reopen", src |-> <<>>, dest |-> <<>>, content |-> "",
              err |-> "ok", pre |-> World]
  /\ UNCHANGED <<now, steps>>

NextFiles ==
  \/ \E path \in FilePaths \cup {<<>>}, c \in Contents : FilesWrite(path, c)
  \/ \E path \in FilePaths, c \in Contents : FilesWriteThrown(path, c)
  \/ \E path \in FilePaths : FilesRead(path)
  \/ \E path \in FilePaths : FilesReadThrown(path)
  \/ \E path \in FilePaths, recursive \in BOOLEAN : FilesMkdir(path, recursive)
  \/ \E src \in FilePaths, dest \in FilePaths : FilesMv(src, dest)
  \/ FilesReopen

SpecFiles == InitFiles /\ [][NextFiles]_vars

\* ------------------------------------------------------------------------
\* Properties of the facade calls
\* ------------------------------------------------------------------------
\* C12: every facade call releases what it acquired before it returns or
\* throws, so after any sequence of calls the pool holds no entry and has
\* destroyed every document it opened.
C12_FacadeLeavesPoolEmpty ==
  hist.op \in {"write", "writeThrown", "read", "readThrown", "mkdir", "mv"} =>
    /\ docs = EmptyMap
    /\ opened = closed

\* The last call was an mv that returned.
MvReturned == hist.op = "mv" /\ hist.err = "ok"

\* The row src resolved to when the mv was called.
MovedId == hist.pre.pathToId[hist.src]

\* The path below src, carried over to dest.
Rebase(p) == hist.dest \o SubSeq(p, Len(hist.src) + 1, Len(p))

\* The last call was an mv of a file between names of one category.
SameCategoryMv ==
  /\ MvReturned
  /\ hist.pre.rows[MovedId].type = "file"
  /\ getExtensionCategory(hist.pre.rows[MovedId].name) =
       getExtensionCategory(hist.dest[Len(hist.dest)])

\* C17: after mv(src, dest) returns, src is not indexed, dest resolves to
\* the row src resolved to, every path below src is found below dest, and
\* a moved file reads at dest as it read at src (as the same front matter
\* and body when the category changed).
C17_MvMovesPathAndContent ==
  (MvReturned /\ hist.src # hist.dest) =>
    /\ hist.src \notin DOMAIN pathToId
    /\ hist.dest \in DOMAIN pathToId
    /\ pathToId[hist.dest] = MovedId
    /\ \A p \in DOMAIN hist.pre.pathToId :
         (IsPrefix(hist.src, p) /\ p # hist.src) =>
           /\ Rebase(p) \in DOMAIN pathToId
           /\ pathToId[Rebase(p)] = hist.pre.pathToId[p]
    /\ hist.pre.rows[MovedId].type = "file" =>
         LET before == readFile(hist.pre, hist.src)
             after == readFile(World, hist.dest)
         IN /\ after.err = "ok"
            /\ IF SameCategoryMv THEN after.ret = before.ret
               ELSE parseFrontmatter(after.ret) = parseFrontmatter(before.ret)

\* C18: an mv of a file between names of one category changes the name,
\* parentId and updatedAt of the moved row and nothing else: no other row,
\* no cache entry, no document; the file reads at dest as it read at src.
C18_SameCategoryMvFrame ==
  SameCategoryMv =>
    /\ DOMAIN rows = DOMAIN hist.pre.rows
    /\ \A i \in DOMAIN rows : i # MovedId => rows[i] = hist.pre.rows[i]
    /\ [rows[MovedId] EXCEPT !.name = hist.pre.rows[MovedId].name,
                             !.parentId = hist.pre.rows[MovedId].parentId,
                             !.updatedAt = hist.pre.rows[MovedId].updatedAt]
         = hist.pre.rows[MovedId]
    /\ plaintext = hist.pre.plaintext
    /\ docs = hist.pre.docs
    /\ store = hist.pre.store
    /\ opened = hist.pre.opened
    /\ LET before == readFile(hist.pre, hist.src)
           after == readFile(World, hist.dest)
       IN after.err = "ok" /\ after.ret = before.ret

\* The parent path of path was indexed when the call started (root always is).
ParentIndexed(path) == Len(path) = 1 \/ Front(path) \in DOMAIN hist.pre.pathToId

\* The parentId a row at path gets: null under root.
ParentIdOf(path) == IF Len(path) = 1 THEN Null ELSE hist.pre.pathToId[Front(path)]

\* mv(src, dest) got as far as the uniqueness check: src names a row and
\* the parent of dest is indexed.
MvChecked ==
  /\ hist.op = "mv"
  /\ hist.src \in DOMAIN hist.pre.pathToId
  /\ MovedId \in DOMAIN hist.pre.rows
  /\ ParentIndexed(hist.dest)

\* Another active row under the parent of dest carries the name of dest.
MvConflict ==
  \E c \in Active(hist.pre.rows) :
    /\ c # MovedId
    /\ hist.pre.rows[c].parentId = ParentIdOf(hist.dest)
    /\ hist.pre.rows[c].name = hist.dest[Len(hist.dest)]

\* C19: mv is rejected with the uniqueness error, before it changed
\* anything, whenever another active row under dest's parent has dest's
\* name, and it is rejected with that error in no other case.
C19_MvUniqueness ==
  MvChecked =>
    /\ MvConflict => (hist.err = "EEXIST" /\ World = hist.pre)
    /\ hist.err = "EEXIST" => MvConflict

\* The rows a call created.
NewRows == DOMAIN rows \ DOMAIN hist.pre.rows

\* An active row under that parent carries that name.
SiblingNamed(r, parentId, name) ==
  \E c \in Active(r) : r[c].parentId = parentId /\ r[c].name = name

\* C20: writeFile on a path that is not indexed creates exactly one active
\* file row, named by the last segment under the row of the parent path,
\* when the name is legal and no active sibling has it, and no row
\* otherwise; ENOENT and no row when the parent path is not indexed; on an
\* indexed path no row, and the content goes to the row the path names.
C20_WriteFileCreatesOneRow ==
  hist.op = "write" =>
    LET pre == hist.pre
        path == hist.dest
    IN IF path \in DOMAIN pre.pathToId
       THEN /\ NewRows = {}
            /\ hist.err = "ok" =>
                 /\ plaintext[pre.pathToId[path]] = hist.content
                 /\ rows[pre.pathToId[path]].size = Len(hist.content)
       ELSE IF ~ParentIndexed(path)
       THEN hist.err = "ENOENT" /\ rows = pre.rows
       ELSE IF path[Len(path)] # "" /\ ~SiblingNamed(pre.rows, ParentIdOf(path), path[Len(path)])
       THEN /\ hist.err = "ok"
            /\ Cardinality(NewRows) = 1
            /\ \A n \in NewRows :
                 /\ rows[n].name = path[Len(path)]
                 /\ rows[n].parentId = ParentIdOf(path)
                 /\ rows[n].type = "file"
                 /\ rows[n].trashedAt = NotTrashed
                 /\ plaintext[n] = hist.content
            /\ \A i \in DOMAIN pre.rows : i \in DOMAIN rows
       ELSE hist.err # "ok" /\ rows = pre.rows

\* ------------------------------------------------------------------------
\* One file, written and renamed, and an mv across categories that the end
\* of the process interrupts between the row update and the rewrite.
\* ------------------------------------------------------------------------
RenamePaths == { <<"a.txt">>, <<"n.md">> }

\* The category-change branch of mv up to the row update: the content is
\* read, the cache entry dropped, the row renamed.
MvRenamed(content, id, patch) ==
  IF content.err # "ok" THEN content
  ELSE [w |-> TableUpdate(CacheDrop(content.w, id), id, patch),
        err |-> "interrupted", ret |-> content.ret]

\* mv(src, dest) stopped before "Re-write content through the new type
\* handler"; an mv that has no such step runs to its end.
mvInterrupted(w, src, dest, t) ==
  LET res == resolveId(w, src)
      id == res.id
      parsed == parsePath(w, dest)
      patch == [name |-> parsed.name, parentId |-> parsed.parentId, updatedAt |-> t]
  IN IF res.err # "ok" THEN Fail(w, res.err)
     ELSE IF getRow(w, id) # "ok" THEN Fail(w, "ENOENT")
     ELSE IF parsed.err # "ok" THEN Fail(w, parsed.err)
     ELSE IF ~validateName(parsed.name) THEN Fail(w, "EINVAL")
     ELSE IF NameTaken(w, parsed.parentId, parsed.name, id) THEN Fail(w, "EEXIST")
     ELSE IF /\ w.rows[id].type = "file"
             /\ getExtensionCategory(w.rows[id].name) # getExtensionCategory(parsed.name)
          THEN MvRenamed(readFile(w, src), id, patch)
     ELSE Ok(TableUpdate(w, id, patch))

\* The process ended inside the call that left r; the next process opens
\* the workspace: a new index, an empty cache and an empty pool.
Interrupted(r, src, dest) ==
  /\ r.err = "interrupted"
  /\ Become(createFileSystemIndex(
              [r.w EXCEPT !.observing = FALSE, !.plaintext = EmptyMap,
                          !.docs = EmptyMap, !.opened = 0, !.closed = 0]))
  /\ hist' = [op |-> "interrupted", src |-> src, dest |-> dest,
              content |-> r.ret, err |-> r.err, pre |-> World]

FilesMvInterrupted(src, dest) ==
  /\ observing
  /\ steps <= MaxCalls
  /\ steps' = steps + 1
  /\ Interrupted(mvInterrupted(World, src, dest, now), src, dest)
  /\ UNCHANGED now

NextRename ==
  \/ \E path \in RenamePaths, c \in Contents : FilesWrite(path, c)
  \/ \E src \in RenamePaths, dest \in RenamePaths : FilesMv(src, dest)
  \/ \E src \in RenamePaths, dest \in RenamePaths : FilesMvInterrupted(src, dest)

SpecRename == InitFiles /\ [][NextRename]_vars

\* C14: after an mv across categories was interrupted between the row
\* update and the rewrite, the file opened under its new name from the
\* persisted document has the variant of the new name and reads as the
\* content it held just before the mv.
C14_InterruptedMvHeals ==
  (hist.op = "interrupted" /\ provider) =>
    LET id == pathToId[hist.dest]
        name == hist.dest[Len(hist.dest)]
        handle == acquire(World, id, name).docs[id]
        read == readFile(World, hist.dest)
    IN /\ hist.dest \in DOMAIN pathToId
       /\ handle.type = getExtensionCategory(name)
       /\ documentHandleToString(handle) = hist.content
       /\ read.err = "ok"
       /\ read.ret = hist.content

\* ------------------------------------------------------------------------
\* The write of writeFile, one Yjs transaction at a time.  Document
\* observers and the sync provider see the document after every
\* transaction; an interruption leaves what the provider stored last.
\* ------------------------------------------------------------------------
\* The documents after each transaction of "Write content through Yjs": the
\* text variant is cleared and filled inside one transact; the rich-text
\* variant is written by two calls, the front-matter map first.
WriteTransactions(handle, content) ==
  IF handle.type = "text" THEN << [handle.ydoc EXCEPT !.text = content] >>
  ELSE LET parsed == parseFrontmatter(content)
       IN << [handle.ydoc EXCEPT !.frontmatter = parsed.frontmatter],
             [handle.ydoc EXCEPT !.frontmatter = parsed.frontmatter,
                                 !.richtext = RenderBody(parsed.body)] >>

\* Transaction k of the write of content through the open handle of fileId.
WriteTransactionAt(fileId, content, k, start) ==
  /\ k <= Len(WriteTransactions(start.docs[fileId], content))
  /\ Become(DocWrite(World, fileId, WriteTransactions(start.docs[fileId], content)[k]))
  /\ hist' = [op |-> IF k = Len(WriteTransactions(start.docs[fileId], content))
                     THEN "written" ELSE "writing",
              id |-> fileId, name |-> content, pre |-> start, k |-> k,
              acq |-> hist.acq, rel |-> hist.rel]
  /\ UNCHANGED <<now, steps>>

\* The next transaction of a write: the first one of a new write, or the one
\* after hist.k of the write under way.
WriteTransaction(fileId, content) ==
  /\ fileId \in DOMAIN docs
  /\ IF hist.op = "writing"
     THEN /\ hist.id = fileId
          /\ hist.name = content
          /\ WriteTransactionAt(fileId, content, hist.k + 1, hist.pre)
     ELSE WriteTransactionAt(fileId, content, 1, World)

\* writeFile acquires the handle before it writes.
WriteAcquire(fileId, fileName) ==
  /\ hist.op # "writing"
  /\ PoolAcquire(fileId, fileName)

\* What another replica wrote arrives between two writes.
WriteSync(fileId, ydoc) ==
  /\ hist.op # "writing"
  /\ PoolSync(fileId, ydoc)

NextWrite ==
  \/ \E fileId \in PoolIds, fileName \in PoolNames : WriteAcquire(fileId, fileName)
  \/ \E fileId \in PoolIds, ydoc \in SyncedDocs : WriteSync(fileId, ydoc)
  \/ \E fileId \in PoolIds, content \in PoolContents : WriteTransaction(fileId, content)

SpecWrite == InitPool /\ [][NextWrite]_vars

\* C21: while writeFile writes new content through a handle, and once it
\* has, the document that observers see and the document the provider holds
\* are each the document before the write or the document with the whole new
\* content; never the new front matter with the old body.
C21_WriteIsOneTransaction ==
  hist.op \in {"writing", "written"} =>
    LET before == hist.pre.docs[hist.id].ydoc
        after == WriteThrough(hist.pre.docs[hist.id], hist.name)
    IN /\ docs[hist.id].ydoc \in {before, after}
       /\ ProviderDoc(World, hist.id) \in {before, after, EmptyDoc}
       /\ hist.op = "written" => docs[hist.id].ydoc = after

\* ------------------------------------------------------------------------
\* posixResolve.  A path string is the sequence of its characters.
\* ------------------------------------------------------------------------
MaxPathLen == 3

PathChars == {"/", ".", "a"}

RECURSIVE PathStringsOf(_)
PathStringsOf(n) ==
  IF n = 0 THEN { <<>> }
  ELSE PathStringsOf(n - 1) \cup
       { Append(s, c) : s \in { x \in PathStringsOf(n - 1) : Len(x) = n - 1 }, c \in PathChars }

PathStrings == PathStringsOf(MaxPathLen)

\* s.startsWith('/')
StartsWithSlash(s) == Len(s) > 0 /\ s[1] = "/"

\* base.replace(/\/$/, '')
StripTrailingSlash(s) ==
  IF Len(s) > 0 /\ s[Len(s)] = "/" THEN SubSeq(s, 1, Len(s) - 1) ELSE s

\* The index of the first '/' of s, 0 when it has none.
FirstSlash(s) ==
  IF \E i \in 1..Len(s) : s[i] = "/"
  THEN CHOOSE i \in 1..Len(s) : s[i] = "/" /\ \A j \in 1..(i - 1) : s[j] # "/"
  ELSE 0

\* s.split('/')
RECURSIVE SplitAt(_, _)
SplitAt(s, i) ==
  IF i = 0 THEN << s >>
  ELSE << SubSeq(s, 1, i - 1) >> \o
       SplitAt(SubSeq(s, i + 1, Len(s)), FirstSlash(SubSeq(s, i + 1, Len(s))))

Split(s) == SplitAt(s, FirstSlash(s))

\* A loop that takes '..' for a name.
PushPartNoPop(stack, part) ==
  IF part = <<>> \/ part = << "." >> THEN stack ELSE Append(stack, part)

\* One turn of the loop over the parts.
PushPart(stack, part) ==
  IF part = <<>> \/ part = << "." >> THEN stack
  ELSE IF part = << ".", "." >>
       THEN (IF stack = <<>> THEN stack ELSE SubSeq(stack, 1, Len(stack) - 1))
       ELSE Append(stack, part)

RECURSIVE StackAfter(_, _)
StackAfter(parts, n) ==
  IF n = 0 THEN <<>> ELSE PushPart(StackAfter(parts, n - 1), parts[n])

\* stack.join('/')
RECURSIVE Join(_)
Join(stack) ==
  IF stack = <<>> THEN <<>>
  ELSE IF Len(stack) = 1 THEN stack[1]
       ELSE stack[1] \o << "/" >> \o Join(Tail(stack))

Normalized(parts) == << "/" >> \o Join(StackAfter(parts, Len(parts)))

posixResolve(base, path) ==
  Normalized(Split(IF StartsWithSlash(path) THEN path
                   ELSE StripTrailingSlash(base) \o << "/" >> \o path))

resolvePath(w, base, path) == [w |-> w, err |-> "ok", ret |-> posixResolve(base, path)]

\* The call of fs.resolvePath on a file system that holds nothing.
ResolvePath(base, path) ==
  /\ steps = 0
  /\ steps' = 1
  /\ Become(resolvePath(World, base, path).w)
  /\ hist' = [op |-> "resolvePath", base |-> base, path |-> path,
              ret |-> resolvePath(World, base, path).ret, pre |-> World]
  /\ UNCHANGED now

NextResolve == \E base \in PathStrings, path \in PathStrings : ResolvePath(base, path)

SpecResolve == InitPool /\ [][NextResolve]_vars

\* The string has a segment (a maximal run between slashes, after the
\* leading one) that is empty, '.' or '..'.
HasEmptySegment(s) ==
  \E i \in 1..Len(s) : s[i] = "/" /\ (i = Len(s) \/ s[i + 1] = "/")

HasDotSegment(s) ==
  \E i \in 1..Len(s) :
    /\ s[i] = "/"
    /\ \/ /\ i + 1 <= Len(s) /\ s[i + 1] = "."
          /\ (i + 1 = Len(s) \/ s[i + 2] = "/")
       \/ /\ i + 2 <= Len(s) /\ s[i + 1] = "." /\ s[i + 2] = "."
          /\ (i + 2 = Len(s) \/ s[i + 3] = "/")

\* C30: resolvePath changes no state; its result starts with '/' and, unless
\* it is '/' itself, has no empty, '.' or '..' segment; an absolute path gives
\* the same result under every base; '..' at the root gives the root; and
\* resolving the result again, under any base, gives the result.
C30_ResolvePathNormalizes ==
  hist.op = "resolvePath" =>
    /\ World = hist.pre
    /\ StartsWithSlash(hist.ret)
    /\ hist.ret # << "/" >> => ~HasEmptySegment(hist.ret) /\ ~HasDotSegment(hist.ret)
    /\ StartsWithSlash(hist.path) =>
         \A b \in PathStrings : posixResolve(b, hist.path) = hist.ret
    /\ (hist.path = << "/", ".", "." >> \/
        (hist.base = << "/" >> /\ hist.path = << ".", "." >>)) => hist.ret = << "/" >>
    /\ \A b \in PathStrings : posixResolve(b, hist.ret) = hist.ret

\* A relative path that climbs above the root was resolved from a base with
\* a trailing slash.
C30_Witness ==
  /\ hist.op = "resolvePath"
  /\ hist.base = << "/", "a", "/" >>
  /\ hist.path = << ".", ".", "/" >>
  /\ hist.ret = << "/" >>

\* ------------------------------------------------------------------------
\* YjsFileSystem: directory listing, metadata, copy, permissions, links
\* ------------------------------------------------------------------------
\* assertDirectory(id, path): "ok" or the code of the error it throws.
assertDirectory(w, id) ==
  IF id = ROOT_ID THEN "ok"
  ELSE IF getRow(w, id) # "ok" THEN "ENOENT"
  ELSE IF w.rows[id].type # "folder" THEN "ENOTDIR"
  ELSE "ok"

\* Every display name a listing can hold, ascending by UTF-16 code units
\* (' ' < '(' < ')' < '.' < digits < letters), the order of Array.sort().
NameOrder ==
  << "a (1) (1).txt", "a (1) (2).txt", "a (1) (3).txt", "a (1).txt", "a (2).txt",
     "a (3).txt", "a (4).txt", "a.txt",
     "d", "d (1)", "d (2)", "d (3)", "d (4)",
     "e", "e (1)", "e (2)", "e (3)", "e (4)",
     "n (1).md", "n (2).md", "n (3).md", "n (4).md", "n.md" >>

\* names.sort()
RECURSIVE SortFrom(_, _)
SortFrom(i, names) ==
  IF i > Len(NameOrder) THEN <<>>
  ELSE SelectSeq(names, LAMBDA n : n = NameOrder[i]) \o SortFrom(i + 1, names)

\* activeChildren.map((row) => displayNames.get(row.id)).sort()
Listing(activeChildren, displayNames) ==
  SortFrom(1, [i \in 1..Len(activeChildren) |-> displayNames[activeChildren[i]]])

readdir(w, path) ==
  LET res == resolveId(w, path)
  IN IF res.err # "ok" THEN Fail(w, res.err)
     ELSE IF assertDirectory(w, res.id) # "ok" THEN Fail(w, assertDirectory(w, res.id))
     ELSE [w |-> w, err |-> "ok",
           ret |-> Listing(getActiveChildren(w, ChildrenGet(w.childrenOf, res.id)),
                           disambiguateNames(
                             getActiveChildren(w, ChildrenGet(w.childrenOf, res.id)),
                             w.rows))]

\* stat(path): ret is the FsStat record.
stat(w, path) ==
  IF path = <<>>
  THEN [w |-> w, err |-> "ok",
        ret |-> [isFile |-> FALSE, isDirectory |-> TRUE, size |-> 0, mtime |-> 0,
                 mode |-> "755"]]
  ELSE LET res == resolveId(w, path)
       IN IF res.err # "ok" THEN Fail(w, res.err)
          ELSE IF getRow(w, res.id) # "ok" THEN Fail(w, "ENOENT")
          ELSE [w |-> w, err |-> "ok",
                ret |-> [isFile |-> w.rows[res.id].type = "file",
                         isDirectory |-> w.rows[res.id].type = "folder",
                         size |-> w.rows[res.id].size,
                         mtime |-> w.rows[res.id].updatedAt,
                         mode |-> IF w.rows[res.id].type = "folder"
                                  THEN "755" ELSE "644"]]

chmod(w, path) ==
  IF resolveId(w, path).err # "ok" THEN Fail(w, resolveId(w, path).err) ELSE Ok(w)

realpath(w, path) ==
  IF ~exists(w, path) THEN Fail(w, "ENOENT") ELSE [w |-> w, err |-> "ok", ret |-> path]

symlink(w) == Fail(w, "ENOSYS")

link(w) == Fail(w, "ENOSYS")

readlink(w) == Fail(w, "ENOSYS")

\* cp of a file once its content is read.
CpWritten(content, dest, t) ==
  IF content.err # "ok" THEN content ELSE writeFile(content.w, dest, content.ret, t)

RECURSIVE cp(_, _, _, _, _)
RECURSIVE CpChildren(_, _, _, _, _, _)
\* The loop of cp over the listing of src, child k on.
CpChildren(k, children, r, src, dest, t) ==
  IF r.err # "ok" \/ k > Len(children) THEN r
  ELSE CpChildren(k + 1, children,
                  cp(r.w, Append(src, children[k]), Append(dest, children[k]), TRUE, t),
                  src, dest, t)

\* cp of a folder once mkdir(dest, {recursive: true}) returned made.
CpFolder(made, src, dest, t) ==
  IF made.err # "ok" THEN made
  ELSE IF readdir(made.w, src).err # "ok" THEN Fail(made.w, readdir(made.w, src).err)
  ELSE CpChildren(1, readdir(made.w, src).ret, Ok(made.w), src, dest, t)

cp(w, src, dest, recursive, t) ==
  LET res == resolveId(w, src)
  IN IF res.err # "ok" THEN Fail(w, res.err)
     ELSE IF getRow(w, res.id) # "ok" THEN Fail(w, "ENOENT")
     ELSE IF w.rows[res.id].type = "folder"
          THEN IF ~recursive THEN Fail(w, "EISDIR")
               ELSE CpFolder(mkdir(w, dest, TRUE, t), src, dest, t)
          ELSE CpWritten(readFile(w, src), dest, t)

\* ------------------------------------------------------------------------
\* Every operation of the facade, each call remembered with its arguments,
\* what it returned or threw, the world it started from, and for every row
\* the content that was last written to it.
\* ------------------------------------------------------------------------
InitOps ==
  /\ Starts(createFileSystemIndex(
              [rows |-> EmptyMap, order |-> <<>>, observing |-> FALSE,
               pathToId |-> EmptyMap, idToPath |-> EmptyMap,
               childrenOf |-> EmptyMap, plaintext |-> EmptyMap,
               docs |-> EmptyMap, store |-> EmptyMap, provider |-> TRUE,
               opened |-> 0, closed |-> 0]))
  /\ now = 1
  /\ steps = 0
  /\ hist = [op |-> "open", last |-> EmptyMap]

\* The content last written to each row, as far as the calls were seen.
LastWritten == IF "last" \in DOMAIN hist THEN hist.last ELSE EmptyMap

ContentOf(last, id) == IF id \in DOMAIN last THEN last[id] ELSE ""

\* The path p below src, carried over to dest.
Under(src, dest, p) == dest \o SubSeq(p, Len(src) + 1, Len(p))

\* The call op(src, dest, content, {recursive, force}) returned or threw r.
OpsCall(r, op, src, dest, content, recursive, force, last) ==
  /\ observing
  /\ steps < MaxCalls
  /\ Cardinality(DOMAIN r.w.rows) <= MaxRows
  /\ steps' = steps + 1
  /\ Become(r.w)
  /\ hist' = [op |-> op, src |-> src, dest |-> dest, content |-> content,
              recursive |-> recursive, force |-> force,
              err |-> r.err, ret |-> r.ret, pre |-> World, last |-> last]
  /\ UNCHANGED now

\* last once content was written to the row that path names in w.
LastPut(last, r, path, content) ==
  IF r.err = "ok" /\ path \in DOMAIN r.w.pathToId
  THEN MapSet(last, r.w.pathToId[path], content) ELSE last

\* last once the files at and below src were copied to dest.
LastCopied(last, pre, r, src, dest) ==
  IF r.err # "ok" THEN last
  ELSE LET copied == {p \in DOMAIN pre.pathToId :
                        /\ IsPrefix(src, p)
                        /\ pre.rows[pre.pathToId[p]].type = "file"
                        /\ Under(src, dest, p) \in DOMAIN r.w.pathToId}
           PathTo(id) == CHOOSE p \in copied : r.w.pathToId[Under(src, dest, p)] = id
           targets == {r.w.pathToId[Under(src, dest, p)] : p \in copied}
       IN [id \in DOMAIN last \cup targets |->
             IF id \in targets THEN ContentOf(last, pre.pathToId[PathTo(id)])
             ELSE last[id]]

OpsWrite(path, content) ==
  /\ observing
  /\ OpsCall(writeFile(World, path, content, now), "writeFile", path, path, content,
             FALSE, FALSE,
             LastPut(LastWritten, writeFile(World, path, content, now), path, content))

OpsAppend(path, content) ==
  /\ observing
  /\ OpsCall(appendFile(World, path, content, now), "appendFile", path, path, content,
             FALSE, FALSE,
             LastPut(LastWritten, appendFile(World, path, content, now), path,
                     IF path \in DOMAIN pathToId
                     THEN ContentOf(LastWritten, pathToId[path]) \o content
                     ELSE content))

OpsRead(path) ==
  /\ observing
  /\ OpsCall(readFile(World, path), "readFile", path, path, "", FALSE, FALSE, LastWritten)

OpsMkdir(path, recursive) ==
  /\ observing
  /\ OpsCall(mkdir(World, path, recursive, now), "mkdir", path, path, "",
             recursive, FALSE, LastWritten)

OpsRm(path, recursive, force) ==
  /\ observing
  /\ OpsCall(rm(World, path, recursive, force, now), "rm", path, path, "",
             recursive, force, LastWritten)

OpsCp(src, dest, recursive) ==
  /\ observing
  /\ ~(IsPrefix(src, dest) /\ src # dest)
  /\ OpsCall(cp(World, src, dest, recursive, now), "cp", src, dest, "",
             recursive, FALSE,
             LastCopied(LastWritten, World, cp(World, src, dest, recursive, now), src, dest))

OpsMv(src, dest) ==
  /\ observing
  /\ OpsCall(mv(World, src, dest, now), "mv", src, dest, "", FALSE, FALSE, LastWritten)

OpsReaddir(path) ==
  /\ observing
  /\ OpsCall(readdir(World, path), "readdir", path, path, "", FALSE, FALSE, LastWritten)

OpsStat(path) ==
  /\ observing
  /\ OpsCall(stat(World, path), "stat", path, path, "", FALSE, FALSE, LastWritten)

OpsChmod(path) ==
  /\ observing
  /\ OpsCall(chmod(World, path), "chmod", path, path, "", FALSE, FALSE, LastWritten)

OpsRealpath(path) ==
  /\ observing
  /\ OpsCall(realpath(World, path), "realpath", path, path, "", FALSE, FALSE, LastWritten)

OpsSymlink(target, path) ==
  /\ observing
  /\ OpsCall(symlink(World), "symlink", target, path, "", FALSE, FALSE, LastWritten)

OpsLink(existing, path) ==
  /\ observing
  /\ OpsCall(link(World), "link", existing, path, "", FALSE, FALSE, LastWritten)

OpsReadlink(path) ==
  /\ observing
  /\ OpsCall(readlink(World), "readlink", path, path, "", FALSE, FALSE, LastWritten)

OpsWrites ==
  { <<<<"a.txt">>, "x">>, <<<<"a.txt">>, "y">>, <<<<"n.md">>, "x">>,
    <<<<"d", "a.txt">>, "x">>, <<<<"d">>, "x">> }

OpsAppends == { <<<<"a.txt">>, "y">>, <<<<"d", "a.txt">>, "y">>, <<<<"d">>, "y">> }

OpsDirs == { <<"d">>, <<"d", "d">> }

OpsRmPaths == { <<"a.txt">>, <<"d">>, <<"d", "d">>, <<"d", "a.txt">> }

RmFlags == { <<FALSE, FALSE>>, <<TRUE, FALSE>>, <<FALSE, TRUE>> }

OpsCpSources == { <<"a.txt">>, <<"d">> }

OpsCpDests == { <<"a.txt">>, <<"d">>, <<"e">>, <<"d", "a.txt">> }

OpsMoves ==
  { << <<"a.txt">>, <<"n.md">> >>, << <<"n.md">>, <<"a.txt">> >>,
    << <<"a.txt">>, <<"d", "a.txt">> >>, << <<"d">>, <<"e">> >> }

OpsReadPaths == { <<>>, <<"a.txt">>, <<"n.md">>, <<"d">>, <<"d", "a.txt">> }

NextOps ==
  \/ \E a \in OpsWrites : OpsWrite(a[1], a[2])
  \/ \E a \in OpsAppends : OpsAppend(a[1], a[2])
  \/ \E path \in OpsReadPaths : OpsRead(path)
  \/ \E path \in OpsDirs, recursive \in BOOLEAN : OpsMkdir(path, recursive)
  \/ \E path \in OpsRmPaths, f \in RmFlags : OpsRm(path, f[1], f[2])
  \/ \E src \in OpsCpSources, dest \in OpsCpDests, recursive \in BOOLEAN :
       OpsCp(src, dest, recursive)
  \/ \E m \in OpsMoves : OpsMv(m[1], m[2])
  \/ \E path \in OpsReadPaths : OpsReaddir(path)
  \/ \E path \in OpsReadPaths : OpsStat(path)
  \/ \E path \in OpsReadPaths : OpsChmod(path)
  \/ \E path \in OpsReadPaths : OpsRealpath(path)
  \/ OpsSymlink(<<"a.txt">>, <<"e">>)
  \/ OpsLink(<<"a.txt">>, <<"e">>)
  \/ OpsReadlink(<<"e">>)

SpecOps == InitOps /\ [][NextOps]_vars

\* ------------------------------------------------------------------------
\* A workspace other replicas wrote to: the table is loaded, the index is
\* constructed over it, and then the facade is called.
\* ------------------------------------------------------------------------
SharedNames == {"a.txt", "d"}

SharedPaths == { <<"a.txt">>, <<"d">>, <<"a.txt", "a.txt">>, <<"d", "d">> }

NextShared ==
  \/ \E n \in SharedNames, p \in RawParents, t \in Times, tr \in BOOLEAN : Load(n, p, t, tr)
  \/ Construct
  \/ \E src \in SharedPaths, dest \in SharedPaths : FilesMv(src, dest)
  \/ \E path \in SharedPaths, c \in Contents : FilesWrite(path, c)
  \/ \E path \in SharedPaths, recursive \in BOOLEAN : OpsMkdir(path, recursive)
  \/ \E path \in SharedPaths, c \in Contents : OpsAppend(path, c)
  \/ \E path \in SharedPaths, f \in RmFlags : OpsRm(path, f[1], f[2])
  \/ \E path \in SharedPaths \cup {<<>>} : OpsReaddir(path)

SpecShared == Init /\ [][NextShared]_vars

\* ------------------------------------------------------------------------
\* Properties of the facade operations
\* ------------------------------------------------------------------------
\* The active file rows.
ActiveFiles == {id \in DOMAIN rows : rows[id].type = "file" /\ rows[id].trashedAt = NotTrashed}

\* The last call returned normally / threw.
Returned(op) == "err" \in DOMAIN hist /\ hist.op = op /\ hist.err = "ok"

Called(op) == "err" \in DOMAIN hist /\ hist.op = op

\* C22: every active file row has the size of the content last written to
\* it (by writeFile, appendFile, cp or a cross-category mv), stat reports
\* that size at each of its paths, a cache entry it has is that content, and
\* the row a write just wrote has a cache entry.
C22_SizeIsLengthWritten ==
  /\ \A id \in ActiveFiles :
       /\ id \in DOMAIN LastWritten
       /\ rows[id].size = Len(LastWritten[id])
       /\ id \in DOMAIN plaintext => plaintext[id] = LastWritten[id]
       /\ \A p \in DOMAIN pathToId :
            pathToId[p] = id =>
              /\ stat(World, p).err = "ok"
              /\ stat(World, p).ret.size = Len(LastWritten[id])
  /\ (Returned("writeFile") \/ Returned("appendFile")) /\ hist.src \in DOMAIN pathToId =>
       pathToId[hist.src] \in DOMAIN plaintext

\* An append to a file made it longer, and stat and the cache agree.
C22_Witness ==
  /\ Returned("appendFile")
  /\ hist.src \in DOMAIN hist.pre.pathToId
  /\ pathToId[hist.src] \in ActiveFiles
  /\ rows[pathToId[hist.src]].size = 2
  /\ stat(World, hist.src).ret.size = 2
  /\ plaintext[pathToId[hist.src]] = "xy"

\* C23: appendFile on a path absent from the index leaves what
\* writeFile(path, s) leaves and ends as it ends; on an existing file it
\* returns, readFile then returns the content readFile returned before
\* followed by s, and the path names the same row.
C23_AppendFile ==
  Called("appendFile") =>
    IF hist.src \notin DOMAIN hist.pre.pathToId
    THEN /\ World = writeFile(hist.pre, hist.src, hist.content, now).w
         /\ hist.err = writeFile(hist.pre, hist.src, hist.content, now).err
    ELSE hist.src # <<>> /\ hist.pre.rows[hist.pre.pathToId[hist.src]].type = "file" =>
           /\ hist.err = "ok"
           /\ readFile(World, hist.src).err = "ok"
           /\ readFile(World, hist.src).ret =
                readFile(hist.pre, hist.src).ret \o hist.content
           /\ hist.src \in DOMAIN pathToId
           /\ pathToId[hist.src] = hist.pre.pathToId[hist.src]

\* The prefix of length k of a path.
Prefix(path, k) == SubSeq(path, 1, k)

\* C24: mkdir on a path that exists changes nothing; mkdir with recursive
\* returns with every prefix of the path indexed, having created exactly
\* one row per prefix that was missing, a folder named after the component
\* and parented on the row of the previous prefix; mkdir without recursive
\* fails with ENOENT and changes nothing when the parent path is not indexed.
C24_Mkdir ==
  Called("mkdir") =>
    /\ exists(hist.pre, hist.src) => hist.err = "ok" /\ World = hist.pre
    /\ ~exists(hist.pre, hist.src) /\ hist.recursive =>
         /\ hist.err = "ok"
         /\ \A k \in 1..Len(hist.src) :
              /\ Prefix(hist.src, k) \in DOMAIN pathToId
              /\ Prefix(hist.src, k) \notin DOMAIN hist.pre.pathToId =>
                   LET id == pathToId[Prefix(hist.src, k)]
                   IN /\ id \notin DOMAIN hist.pre.rows
                      /\ rows[id].type = "folder"
                      /\ rows[id].name = hist.src[k]
                      /\ rows[id].trashedAt = NotTrashed
                      /\ rows[id].parentId =
                           IF k = 1 THEN Null ELSE pathToId[Prefix(hist.src, k - 1)]
         /\ Cardinality(DOMAIN rows \ DOMAIN hist.pre.rows) =
              Cardinality({k \in 1..Len(hist.src) :
                             Prefix(hist.src, k) \notin DOMAIN hist.pre.pathToId})
    /\ /\ ~exists(hist.pre, hist.src)
       /\ ~hist.recursive
       /\ Len(hist.src) > 1
       /\ Front(hist.src) \notin DOMAIN hist.pre.pathToId
       => hist.err = "ENOENT" /\ World = hist.pre

\* The children of a row by the table: the rows whose parentId names it.
ChildRows(r, id) == {c \in DOMAIN r : r[c].parentId = id}

\* C25: rm on a path not in the index fails with ENOENT and with force
\* returns having changed nothing; rm without recursive on a folder with an
\* active child fails with ENOTEMPTY and leaves the rows and the cache as
\* they were; on a folder whose children are all trashed it returns and the
\* folder is trashed.
C25_Rm ==
  Called("rm") =>
    IF ~exists(hist.pre, hist.src)
    THEN /\ World = hist.pre
         /\ hist.err = IF hist.force THEN "ok" ELSE "ENOENT"
    ELSE LET id == resolveId(hist.pre, hist.src).id
         IN id \in DOMAIN hist.pre.rows /\ hist.pre.rows[id].type = "folder"
              /\ ~hist.recursive =>
              IF ChildRows(hist.pre.rows, id) \cap Active(hist.pre.rows) # {}
              THEN /\ hist.err = "ENOTEMPTY"
                   /\ rows = hist.pre.rows
                   /\ plaintext = hist.pre.plaintext
              ELSE ChildRows(hist.pre.rows, id) # {} =>
                     /\ hist.err = "ok"
                     /\ rows[id].trashedAt # NotTrashed

C27_Cp ==
  Called("cp") /\ hist.src \in DOMAIN hist.pre.pathToId /\ hist.src # <<>>
    /\ hist.src # hist.dest =>
    LET id == hist.pre.pathToId[hist.src]
    IN IF hist.pre.rows[id].type = "file"
       THEN hist.err = "ok" =>
              /\ readFile(World, hist.dest).err = "ok"
              /\ readFile(World, hist.dest).ret = readFile(hist.pre, hist.src).ret
              /\ hist.dest \in DOMAIN pathToId
              /\ pathToId[hist.dest] # id
              /\ rows[id] = hist.pre.rows[id]
              /\ hist.src \in DOMAIN pathToId
              /\ pathToId[hist.src] = id
              /\ readFile(World, hist.src).ret = readFile(hist.pre, hist.src).ret
       ELSE IF ~hist.recursive
            THEN hist.err # "ok" /\ rows = hist.pre.rows
            ELSE hist.err = "ok" =>
                   \A p \in DOMAIN hist.pre.pathToId :
                     IsPrefix(hist.src, p)
                       /\ hist.pre.rows[hist.pre.pathToId[p]].type = "file" =>
                       /\ readFile(World, Under(hist.src, hist.dest, p)).err = "ok"
                       /\ readFile(World, Under(hist.src, hist.dest, p)).ret =
                            readFile(hist.pre, p).ret

\* The place of a display name in the ascending order.
RankOf(name) == IndexOf(NameOrder, name)

\* C28: readdir on the root or a folder returns, ascending and without
\* repeats, exactly the names n for which path/n is an indexed path whose
\* row has the folder as parent; on a file it fails with ENOTDIR.
C28_Readdir ==
  Called("readdir") /\ exists(hist.pre, hist.src) =>
    LET id == resolveId(hist.pre, hist.src).id
        parent == IF id = ROOT_ID THEN Null ELSE id
    IN IF id # ROOT_ID /\ id \in DOMAIN rows /\ rows[id].type = "file"
       THEN hist.err = "ENOTDIR"
       ELSE id = ROOT_ID \/ id \in DOMAIN rows =>
              /\ hist.err = "ok"
              /\ \A i \in 1..(Len(hist.ret) - 1) :
                   RankOf(hist.ret[i]) < RankOf(hist.ret[i + 1])
              /\ \A n \in Range(NameOrder) :
                   n \in Range(hist.ret) <=>
                     /\ Append(hist.src, n) \in DOMAIN pathToId
                     /\ rows[pathToId[Append(hist.src, n)]].parentId = parent

\* A path names a folder row in the world the call started from.
WasFolder(path) ==
  /\ path \in DOMAIN hist.pre.pathToId
  /\ hist.pre.pathToId[path] \in DOMAIN hist.pre.rows
  /\ hist.pre.rows[hist.pre.pathToId[path]].type = "folder"

\* C29: readFile, writeFile and appendFile on the path of a folder fail
\* with EISDIR; readFile, stat, chmod and realpath on a path not in the
\* index fail with ENOENT; symlink, link and readlink fail with ENOSYS; a
\* chmod that returns and every call that fails leave the rows, the cache
\* and the pool as they were.
C29_ErrorTaxonomy ==
  "err" \in DOMAIN hist =>
    /\ hist.op \in {"readFile", "writeFile", "appendFile"} /\ WasFolder(hist.src) =>
         hist.err = "EISDIR"
    /\ hist.op \in {"readFile", "stat", "chmod", "realpath"}
         /\ ~exists(hist.pre, hist.src) => hist.err = "ENOENT"
    /\ hist.op \in {"symlink", "link", "readlink"} => hist.err = "ENOSYS"
    /\ hist.op = "chmod" \/ hist.err # "ok" =>
         /\ rows = hist.pre.rows
         /\ plaintext = hist.pre.plaintext
         /\ docs = hist.pre.docs

\* ------------------------------------------------------------------------
\* The plaintext cache.  The facade is called while rows of the table are
\* updated underneath it: a rename, a move, a touch, a tombstone.
\* ------------------------------------------------------------------------
utimes(w, path, mtime) ==
  LET res == resolveId(w, path)
  IN IF res.err # "ok" THEN Fail(w, res.err)
     ELSE Ok(TableUpdate(w, res.id, [updatedAt |-> mtime]))

OpsUtimes(path, mtime) ==
  /\ observing
  /\ OpsCall(utimes(World, path, mtime), "utimes", path, path, "", FALSE, FALSE,
             LastWritten)

\* The metadata a table update can carry.
RowPatches ==
  {[name |-> n] : n \in {"a.txt", "n.md"}}
    \cup {[parentId |-> p] : p \in {Null, IdOf(1), IdOf(2)}}
    \cup {[updatedAt |-> MaxTime], [trashedAt |-> MaxTime]}

\* filesTable.update(id, patch) made on the table itself; the observer of
\* the index runs its rebuild before the update returns.
RowUpdate(id, patch) ==
  /\ observing
  /\ id \in DOMAIN rows
  /\ steps < MaxCalls
  /\ steps' = steps + 1
  /\ Become(TableUpdate(World, id, patch))
  /\ hist' = [op |-> "update", id |-> id, patch |-> patch, pre |-> World,
              last |-> LastWritten]
  /\ UNCHANGED now

CachePaths == { <<"a.txt">>, <<"d">> }

NextCache ==
  \/ NextOps
  \/ \E path \in CachePaths, mtime \in Times : OpsUtimes(path, mtime)
  \/ \E id \in Ids, patch \in RowPatches : RowUpdate(id, patch)

SpecCache == InitOps /\ [][NextCache]_vars

\* The operations of the facade that neither read nor write content.
MetadataOps ==
  {"update", "utimes", "mkdir", "readdir", "stat", "chmod", "realpath",
   "symlink", "link", "readlink"}

\* The last call was a mv that stayed within one extension category, moved a
\* folder, or named no source.
MvKeptCategory ==
  /\ hist.op = "mv"
  /\ \/ hist.src \notin DOMAIN hist.pre.pathToId
     \/ hist.pre.pathToId[hist.src] \notin DOMAIN hist.pre.rows
     \/ hist.pre.rows[hist.pre.pathToId[hist.src]].type = "folder"
     \/ getExtensionCategory(hist.pre.rows[hist.pre.pathToId[hist.src]].name)
          = getExtensionCategory(hist.dest[Len(hist.dest)])

\* C31: a rebuild and a metadata-only update of a row (name, parentId,
\* updatedAt, trashedAt) leave every entry of the plaintext cache as it was,
\* and so does every facade operation other than writeFile, appendFile, rm,
\* a cross-category mv and readFile (cp reads and writes through these); a
\* write never removes an entry, rm never adds or changes one, and readFile
\* only adds the entry of the file it read.
C31_CacheFrame ==
  "pre" \in DOMAIN hist =>
    /\ hist.op \in MetadataOps \/ MvKeptCategory => plaintext = hist.pre.plaintext
    /\ hist.op \in {"writeFile", "appendFile", "cp"} =>
         DOMAIN hist.pre.plaintext \subseteq DOMAIN plaintext
    /\ hist.op = "rm" =>
         /\ DOMAIN plaintext \subseteq DOMAIN hist.pre.plaintext
         /\ \A id \in DOMAIN plaintext : plaintext[id] = hist.pre.plaintext[id]
    /\ hist.op = "readFile" =>
         /\ DOMAIN hist.pre.plaintext \subseteq DOMAIN plaintext
         /\ \A id \in DOMAIN hist.pre.plaintext : plaintext[id] = hist.pre.plaintext[id]
         /\ \A id \in DOMAIN plaintext \ DOMAIN hist.pre.plaintext :
              hist.src \in DOMAIN hist.pre.pathToId /\ hist.pre.pathToId[hist.src] = id

\* A cached file was renamed on the table, the rebuild gave it its new path,
\* and its cache entry is the one it had.
C31_Witness ==
  /\ hist.op = "update"
  /\ "name" \in DOMAIN hist.patch
  /\ hist.id \in DOMAIN hist.pre.plaintext
  /\ hist.pre.rows[hist.id].name # hist.patch.name
  /\ pathToId # hist.pre.pathToId
  /\ hist.id \in DOMAIN plaintext
  /\ plaintext[hist.id] = "x"

\* C32: in every reachable state and for every indexed path of an active
\* file, readFile returns the same string with the file's cache entry and
\* without it: dropping the entry changes nothing a later read returns.
C32_CacheAdvisory ==
  \A p \in DOMAIN pathToId :
    /\ pathToId[p] \in DOMAIN rows
    /\ rows[pathToId[p]].type = "file"
    /\ rows[pathToId[p]].trashedAt = NotTrashed
    => /\ readFile(CacheDrop(World, pathToId[p]), p).err = readFile(World, p).err
       /\ readFile(CacheDrop(World, pathToId[p]), p).ret = readFile(World, p).ret

\* The children each parent key lists, an empty list counting as none and
\* the order within a list left aside.
Buckets(c) == [k \in {key \in DOMAIN c : c[key] # <<>>} |-> Range(c[k])]

\* C33: once a rebuild has completed (at construction or after a change), a
\* rebuild run again on the rows it left writes nothing to the table and
\* gives the pathToId and idToPath the index holds and a childrenOf that
\* lists the same children under the same parents.
C33_RepairIdempotent ==
  AfterRebuild =>
    /\ rebuild(rows, order).updates = 0
    /\ rebuild(rows, order).rows = rows
    /\ rebuild(rows, order).pathToId = pathToId
    /\ rebuild(rows, order).idToPath = idToPath
    /\ Buckets(rebuild(rows, order).childrenOf) = Buckets(childrenOf)

\* ------------------------------------------------------------------------
\* The bookkeeping of the pool: the calls of SpecPool, and with them peek
\* and loadAndCache, the latter also with a serialization that throws.
\* ------------------------------------------------------------------------
PoolPeek(fileId) ==
  /\ ~observing
  /\ PoolStep(peek(World, fileId).w, "peek", fileId, "", hist.acq, hist.rel)

PoolLoad(fileId, fileName) ==
  /\ fileId \in DOMAIN docs => docs[fileId].refcount < MaxRefs
  /\ PoolStep(loadAndCache(World, fileId, fileName).w, "loadAndCache", fileId, fileName,
              [hist.acq EXCEPT ![fileId] = IF fileId \in DOMAIN docs THEN @ + 1 ELSE 1],
              [hist.rel EXCEPT ![fileId] = IF fileId \in DOMAIN docs THEN @ + 1 ELSE 1])

PoolLoadThrown(fileId, fileName) ==
  /\ fileId \in DOMAIN docs => docs[fileId].refcount < MaxRefs
  /\ PoolStep(loadAndCacheThrown(World, fileId, fileName).w, "loadAndCacheThrown",
              fileId, fileName,
              [hist.acq EXCEPT ![fileId] = IF fileId \in DOMAIN docs THEN @ + 1 ELSE 1],
              [hist.rel EXCEPT ![fileId] = IF fileId \in DOMAIN docs THEN @ ELSE 0])

NextBook ==
  \/ NextPool
  \/ \E fileId \in PoolIds : PoolPeek(fileId)
  \/ \E fileId \in PoolIds, fileName \in PoolNames : PoolLoad(fileId, fileName)
  \/ \E fileId \in PoolIds, fileName \in PoolNames : PoolLoadThrown(fileId, fileName)

SpecBook == InitPool /\ [][NextBook]_vars

Occurrences(s, id) == Cardinality({k \in DOMAIN s : s[k] = id})

\* C35: after every rebuild each active row is listed exactly once across
\* the lists of childrenOf, in the list of its current parentId (ROOT for
\* null), and no list holds a trashed row, an id without a row or an id
\* twice.
C35_ChildrenOfExact ==
  AfterRebuild =>
    /\ \A id \in Active(rows) :
         /\ ParentKey(rows[id]) \in DOMAIN childrenOf
         /\ Occurrences(childrenOf[ParentKey(rows[id])], id) = 1
         /\ \A key \in DOMAIN childrenOf :
              key # ParentKey(rows[id]) => Occurrences(childrenOf[key], id) = 0
    /\ \A key \in DOMAIN childrenOf :
         \A k \in DOMAIN childrenOf[key] :
           /\ childrenOf[key][k] \in Active(rows)
           /\ Occurrences(childrenOf[key], childrenOf[key][k]) = 1

\* C36: when the rows change through facade calls only, a call changes the
\* parentId of no row but the one a mv names as its source, and it leaves no
\* active row with a parent that is trashed or missing or with a parent
\* chain that does not end at null: a rebuild finds nothing to reparent.
C36_FacadeNeedsNoRepair ==
  "pre" \in DOMAIN hist =>
    /\ \A id \in DOMAIN hist.pre.rows :
         rows[id].parentId # hist.pre.rows[id].parentId =>
           /\ hist.op = "mv"
           /\ hist.src \in DOMAIN hist.pre.pathToId
           /\ id = hist.pre.pathToId[hist.src]
    /\ \A id \in Active(rows) : ~IsOrphan(id, rows) /\ ReachesRoot(id, {}, rows)
    /\ rebuild(rows, order).updates = 0

\* C37: when the rows change through facade calls only, no two active rows
\* with the same parent have the same name, and every indexed row is shown
\* under its own name.
C37_NoDuplicateRawNames ==
  observing =>
    /\ \A i, j \in Active(rows) :
         i # j /\ rows[i].parentId = rows[j].parentId => rows[i].name # rows[j].name
    /\ \A id \in (DOMAIN idToPath) \cap (DOMAIN rows) : DisplayName(id) = rows[id].name

\* C38: in every state reached through facade calls, the parent of each
\* active row is the root or an active row of type folder.
C38_ParentIsFolder ==
  observing =>
    \A id \in Active(rows) :
      \/ rows[id].parentId = Null
      \/ /\ rows[id].parentId \in Active(rows)
         /\ rows[rows[id].parentId].type = "folder"

\* ------------------------------------------------------------------------
\* Calls that fail.  The calls of SpecOps, a new process opening the same
\* workspace (its cache and pool start empty), and an mv across extension
\* categories whose rewrite of the content throws.
\* ------------------------------------------------------------------------
\* A failing rewrite that puts the row and the cache entry back.
MvRolledBack(content, id, patch, dest, t) ==
  IF content.err # "ok" THEN content
  ELSE Fail(content.w, "thrown")

\* The category-change branch of mv when writeFile(dest, content) throws
\* while writing: the cache entry is dropped and the row updated before it.
MvConvertedThrown(content, id, patch, dest, t) ==
  IF content.err # "ok" THEN content
  ELSE writeFileThrown(TableUpdate(CacheDrop(content.w, id), id, patch), dest,
                       content.ret, t)

mvThrown(w, src, dest, t) ==
  LET res == resolveId(w, src)
      id == res.id
      parsed == parsePath(w, dest)
      patch == [name |-> parsed.name, parentId |-> parsed.parentId, updatedAt |-> t]
  IN IF res.err # "ok" THEN Fail(w, res.err)
     ELSE IF getRow(w, id) # "ok" THEN Fail(w, "ENOENT")
     ELSE IF parsed.err # "ok" THEN Fail(w, parsed.err)
     ELSE IF ~validateName(parsed.name) THEN Fail(w, "EINVAL")
     ELSE IF NameTaken(w, parsed.parentId, parsed.name, id) THEN Fail(w, "EEXIST")
     ELSE IF /\ w.rows[id].type = "file"
             /\ getExtensionCategory(w.rows[id].name) # getExtensionCategory(parsed.name)
          THEN MvConvertedThrown(readFile(w, src), id, patch, dest, t)
     ELSE Ok(TableUpdate(w, id, patch))

OpsMvThrown(src, dest) ==
  /\ observing
  /\ mvThrown(World, src, dest, now).err = "thrown"
  /\ OpsCall(mvThrown(World, src, dest, now), "mv", src, dest, "", FALSE, FALSE,
             LastWritten)

OpsReopen ==
  /\ observing
  /\ plaintext # EmptyMap
  /\ Become(createFileSystemIndex(
              [World EXCEPT !.observing = FALSE, !.plaintext = EmptyMap,
                            !.docs = EmptyMap, !.opened = 0, !.closed = 0]))
  /\ hist' = [op |-> "reopen", src |-> <<>>, dest |-> <<>>, content |-> "",
              recursive |-> FALSE, force |-> FALSE, err |-> "ok", ret |-> "",
              pre |-> World, last |-> LastWritten]
  /\ UNCHANGED <<now, steps>>

NextFail ==
  \/ NextOps
  \/ \E m \in OpsMoves : OpsMvThrown(m[1], m[2])
  \/ OpsReopen

SpecFail == InitOps /\ [][NextFail]_vars

\* The last call threw.
Failed == "err" \in DOMAIN hist /\ hist.err # "ok"

\* The error codes of the facade's own checks.
CheckCodes == {"ENOENT", "EISDIR", "ENOTDIR", "EEXIST", "ENOTEMPTY", "ENOSYS"}

Pending == IF "pending" \in DOMAIN hist THEN hist.pending ELSE 0

RepairNames == {"a.txt"}

RepairPatches ==
  {[parentId |-> p, updatedAt |-> MaxTime] : p \in RawParents}
    \cup {[trashedAt |-> MaxTime]}

\* A change of one row reaches the table while the index observes it.
TableChange(id, patch) ==
  /\ observing
  /\ Pending = 0
  /\ id \in DOMAIN rows
  /\ steps < MaxDeliveries
  /\ steps' = steps + 1
  /\ rows' = UpdateRow(rows, id, patch)
  /\ hist' = [op |-> "change", pending |-> 1, round |-> 0,
              raw |-> UpdateRow(rows, id, patch)]
  /\ UNCHANGED <<order, observing, pathToId, idToPath, childrenOf, plaintext,
                 docs, store, provider, opened, closed, now>>

\* The callbacks of one change are numbered modulo RoundModulus, so that
\* a callback is a step even when its rebuild leaves everything as it was.
RoundModulus == 4

\* A callback is pending exactly when RebuildStep can be taken.
RebuildEnabled == observing /\ Pending > 0

\* One callback of the observer: update() runs rebuild().
RebuildStep ==
  /\ RebuildEnabled
  /\ \E r \in {rebuild(rows, order)} :
       /\ \E w \in {Indexed(World, r)} : Become(w)
       /\ hist' = [op |-> "rebuild",
                   pending |-> hist.pending - 1 + r.updates,
                   round |-> (hist.round + 1) % RoundModulus,
                   raw |-> hist.raw]
  /\ UNCHANGED <<now, steps>>

NextRepair ==
  \/ \E n \in RepairNames, p \in RawParents, tr \in BOOLEAN : Load(n, p, 1, tr)
  \/ Construct
  \/ \E id \in Ids, patch \in RepairPatches : TableChange(id, patch)
  \/ RebuildStep

\* The callbacks run synchronously inside the update that reported the
\* change, so a pending callback is always run: weak fairness of
\* RebuildStep, WF_vars(RebuildStep), written out by its definition with
\* RebuildEnabled for ENABLED <<RebuildStep>>_vars.
FairRebuild == []<>(~RebuildEnabled) \/ []<><<RebuildStep>>_vars

SpecRepair == Init /\ [][NextRepair]_vars /\ FairRebuild

\* C40: every reported table change is followed by finitely many rebuilds
\* and repair writes: whenever callbacks are pending, a state is reached in
\* which none is, and in it every active row has an active parent or none
\* and a parent chain that ends at null, so nothing is left to repair.
C40_RepairTerminates ==
  (Pending > 0) ~>
    (/\ Pending = 0
     /\ rebuild(rows, order).updates = 0
     /\ \A id \in Active(rows) : ~IsOrphan(id, rows) /\ ReachesRoot(id, {}, rows))

\* A change closed a cycle of two rows; the rebuild it triggered repaired
\* it, the rebuild the repair write triggered found nothing, and no callback
\* is pending.
C40_Witness ==
  /\ hist.op = "rebuild"
  /\ hist.round >= 2
  /\ Pending = 0
  /\ \E i, j \in Active(hist.raw) :
       i # j /\ hist.raw[i].parentId = j /\ hist.raw[j].parentId = i
  /\ \A id \in Active(rows) : ReachesRoot(id, {}, rows)

====
